---- MODULE Spec2Model ----
(***************************************************************************)
(* A model of the Netpbm library (package Netpbm): the PBM, PGM and PPM    *)
(* image objects, their accessors, their codecs and the drawing            *)
(* primitives.  The repository holds several implementations of the same   *)
(* type; the variable impl says which source file the object belongs to:   *)
(*   "pbm.go"      PBM of src/pbm.go:12-207 (src/unnamed/part_000 is the   *)
(*                 same code with the reader renamed)                      *)
(*   "pgm.go"      PGM of src/pgm.go (src/unnamed/part_001 is the same     *)
(*                 code with one local renamed)                            *)
(*   "pbm.go/PGM"  PGM of src/pbm.go:209-445 (the bufio.Scanner variant)   *)
(*   "ppm.go"      PPM of src/ppm.go                                       *)
(*   "part_002"    PPM of src/unnamed/part_002 (the bufio.Scanner variant) *)
(* Go slices are 0-based, TLA+ sequences 1-based: pixel (x, y) of the      *)
(* code is data[y+1][x+1] here.                                            *)
(***************************************************************************)
EXTENDS Integers, Sequences, FiniteSets, TLC

VARIABLES
    kind,         \* "PBM", "PGM" or "PPM": the Go type of the object
    impl,         \* the source file of the object's methods
    data,         \* the data field: rows of samples
    width,        \* the width field
    height,       \* the height field
    magicNumber,  \* the magicNumber field
    max,          \* the max field (PBM has none: kept at 1)
    file,         \* the bytes of the file Save wrote or Read is given
    status,       \* "ok", or "panic" once a call aborted the program
    last          \* the last call: its name, arguments, result and the object before it

vars == <<kind, impl, data, width, height, magicNumber, max, file, status, last>>

\* The fields of the object, as one value.
Snapshot ==
    [data |-> data, width |-> width, height |-> height,
     magicNumber |-> magicNumber, max |-> max]

PBMImpls == {"pbm.go"}
PGMImpls == {"pgm.go", "pbm.go/PGM"}
PPMImpls == {"ppm.go", "part_002"}

KindOf(i) ==
    IF i \in PBMImpls THEN "PBM" ELSE IF i \in PGMImpls THEN "PGM" ELSE "PPM"

Pixel(r, g, b) == [R |-> r, G |-> g, B |-> b]

\* A PBM has no max field: the model keeps 1 there.
NoMax == 1

\* The zero value of the sample type of kind k.
ZeroSample(k) ==
    IF k = "PBM" THEN FALSE ELSE IF k = "PGM" THEN 0 ELSE Pixel(0, 0, 0)

\* Whether data[y][x] is an index Go accepts (anything else panics).
InRange(d, x, y) ==
    /\ y >= 0
    /\ y < Len(d)
    /\ x >= 0
    /\ x < Len(d[y + 1])

\* data[y][x] = v
Store(d, x, y, v) == [d EXCEPT ![y + 1][x + 1] = v]

\* data[y][x]
Load(d, x, y) == d[y + 1][x + 1]

\* A rectangular grid of h rows of w samples, every one v.
Blank(w, h, v) == [y \in 1..h |-> [x \in 1..w |-> v]]

-----------------------------------------------------------------------------
(* Set and At.  Each returns what the call leaves behind: the data and      *)
(* whether the call panicked (an index out of range aborts the program).    *)

\* The explicit bounds test of PBM.At, PBM.Set and ppm.go's PPM.Set.
InBounds(x, y, w, h) == x >= 0 /\ x < w /\ y >= 0 /\ y < h

\* An assignment data[y][x] = v with no test of its own.
RawSet(d, x, y, v) ==
    IF InRange(d, x, y)
    THEN [data |-> Store(d, x, y, v), panic |-> FALSE]
    ELSE [data |-> d, panic |-> TRUE]

\* An assignment guarded by the bounds test.
GuardedSet(d, w, h, x, y, v) ==
    IF InBounds(x, y, w, h) THEN RawSet(d, x, y, v) ELSE [data |-> d, panic |-> FALSE]

PBMSet(d, w, h, x, y, v) == GuardedSet(d, w, h, x, y, v)

PGMSet(d, w, h, x, y, v) == RawSet(d, x, y, v)

PGM2Set(d, w, h, x, y, v) == RawSet(d, x, y, v)

PPMSet(d, w, h, x, y, v) == GuardedSet(d, w, h, x, y, v)

PPM2Set(d, w, h, x, y, v) == RawSet(d, x, y, v)

SetOf(i, d, w, h, x, y, v) ==
    CASE i = "pbm.go" -> PBMSet(d, w, h, x, y, v)
      [] i = "pgm.go" -> PGMSet(d, w, h, x, y, v)
      [] i = "pbm.go/PGM" -> PGM2Set(d, w, h, x, y, v)
      [] i = "ppm.go" -> PPMSet(d, w, h, x, y, v)
      [] i = "part_002" -> PPM2Set(d, w, h, x, y, v)

\* A read data[y][x] with no test of its own.
RawAt(d, x, y) ==
    IF InRange(d, x, y)
    THEN [ret |-> Load(d, x, y), panic |-> FALSE]
    ELSE [ret |-> "none", panic |-> TRUE]

PBMAt(d, w, h, x, y) ==
    IF InBounds(x, y, w, h) THEN RawAt(d, x, y) ELSE [ret |-> FALSE, panic |-> FALSE]

PGMAt(d, w, h, x, y) == RawAt(d, x, y)

PGM2At(d, w, h, x, y) == RawAt(d, x, y)

PPMAt(d, w, h, x, y) == RawAt(d, x, y)

PPM2At(d, w, h, x, y) == RawAt(d, x, y)

AtOf(i, d, w, h, x, y) ==
    CASE i = "pbm.go" -> PBMAt(d, w, h, x, y)
      [] i = "pgm.go" -> PGMAt(d, w, h, x, y)
      [] i = "pbm.go/PGM" -> PGM2At(d, w, h, x, y)
      [] i = "ppm.go" -> PPMAt(d, w, h, x, y)
      [] i = "part_002" -> PPM2At(d, w, h, x, y)

-----------------------------------------------------------------------------
(* The accessor specification: an image built by direct construction, then  *)
(* any sequence of Set and At calls with coordinates in and around it.      *)

\* Largest width and height of the images of the accessor specification.
MaxDim == 2

\* The coordinates tried reach this far beyond each edge.
Margin == 1

\* The samples the images of the accessor specification are made of.
AccessSamples(k) ==
    IF k = "PBM" THEN {FALSE, TRUE}
    ELSE IF k = "PGM" THEN {0, 9}
    ELSE {Pixel(0, 0, 0), Pixel(1, 2, 3)}

FirstMagic(k) == IF k = "PBM" THEN "P1" ELSE IF k = "PGM" THEN "P2" ELSE "P3"

InitAccess ==
    /\ impl \in PBMImpls \cup PGMImpls \cup PPMImpls
    /\ kind = KindOf(impl)
    /\ width \in 1..MaxDim
    /\ height \in 1..MaxDim
    /\ data \in [1..height -> [1..width -> AccessSamples(kind)]]
    /\ magicNumber = FirstMagic(kind)
    /\ max = IF kind = "PBM" THEN NoMax ELSE 255
    /\ file = <<>>
    /\ status = "ok"
    /\ last = [op |-> "new"]

Set(x, y, v) ==
    /\ status = "ok"
    /\ LET r == SetOf(impl, data, width, height, x, y, v)
       IN  /\ data' = r.data
           /\ status' = IF r.panic THEN "panic" ELSE "ok"
    /\ last' = [op |-> "Set", x |-> x, y |-> y, v |-> v, pre |-> Snapshot]
    /\ UNCHANGED <<kind, impl, width, height, magicNumber, max, file>>

At(x, y) ==
    /\ status = "ok"
    /\ LET r == AtOf(impl, data, width, height, x, y)
       IN  /\ status' = IF r.panic THEN "panic" ELSE "ok"
           /\ last' = [op |-> "At", x |-> x, y |-> y, ret |-> r.ret, pre |-> Snapshot]
    /\ UNCHANGED <<kind, impl, data, width, height, magicNumber, max, file>>

CallSet ==
    \E x \in (0 - Margin)..(width - 1 + Margin), y \in (0 - Margin)..(height - 1 + Margin) :
        \E v \in AccessSamples(kind) : Set(x, y, v)

CallAt ==
    \E x \in (0 - Margin)..(width - 1 + Margin), y \in (0 - Margin)..(height - 1 + Margin) :
        At(x, y)

NextAccess == CallSet \/ CallAt

SpecAccess == InitAccess /\ [][NextAccess]_vars

\* The call recorded in last had a coordinate outside the image it was made on.
LastOutside ==
    ~InBounds(last.x, last.y, last.pre.width, last.pre.height)

\* C1: Set(x, y, v) with x < 0, x >= width, y < 0 or y >= height completes
\* without failing and leaves every sample, the width, the height, the magic
\* number and the max value unchanged, for every image kind and implementation.
C1_SetOutsideIsNoOp ==
    (last.op = "Set" /\ LastOutside) => (status = "ok" /\ Snapshot = last.pre)

\* C2: At(x, y) with x < 0, x >= width, y < 0 or y >= height does not fail,
\* returns the zero value of the sample type and never changes the image.
C2_AtOutsideIsZero ==
    (last.op = "At" /\ LastOutside) =>
        (status = "ok" /\ last.ret = ZeroSample(kind) /\ Snapshot = last.pre)

-----------------------------------------------------------------------------
(* Drawing (PPM only).  A drawing call is a loop of Set calls; run is the   *)
(* data written so far and whether the program has panicked, after which    *)
(* nothing more is written.                                                 *)

Point(x, y) == [X |-> x, Y |-> y]

Abs(n) == IF n < 0 THEN 0 - n ELSE n

Min(a, b) == IF a < b THEN a ELSE b

Max(a, b) == IF a > b THEN a ELSE b

\* Go's integer division a / b for b # 0: the quotient truncated toward zero.
GoQuo(a, b) ==
    IF (a >= 0) = (b > 0) THEN Abs(a) \div Abs(b) ELSE 0 - (Abs(a) \div Abs(b))

\* ppm.Set(x, y, c) on a run.
Plot(i, run, w, h, x, y, c) ==
    IF run.panic THEN run ELSE SetOf(i, run.data, w, h, x, y, c)

\* ppm.Set on each point of pts, in order.
RECURSIVE PlotAll(_, _, _, _, _, _)
PlotAll(i, run, w, h, pts, c) ==
    IF pts = <<>> THEN run
    ELSE PlotAll(i, Plot(i, run, w, h, Head(pts).X, Head(pts).Y, c), w, h, Tail(pts), c)

\* The points of "for a := a0; a <= a1; a++ { for b := b0; b <= b1; b++ {...} }",
\* as pairs <<a, b>> in the order the loops visit them.
LoopPairs(a0, a1, b0, b1) ==
    IF a1 < a0 \/ b1 < b0 THEN <<>>
    ELSE LET nb == b1 - b0 + 1
         IN  [k \in 1..((a1 - a0 + 1) * nb) |->
                 <<a0 + ((k - 1) \div nb), b0 + ((k - 1) % nb)>>]

\* part_002's DrawFilledRectangle: rows p1.Y .. p1.Y+height-1, columns
\* p1.X .. p1.X+width-1, each through Set.
PPM2DrawFilledRectangle(run, w, h, p1, rw, rh, c) ==
    LET yx == LoopPairs(p1.Y, p1.Y + rh - 1, p1.X, p1.X + rw - 1)
    IN  PlotAll("part_002", run, w, h, [k \in 1..Len(yx) |-> Point(yx[k][2], yx[k][1])], c)

\* ppm.go's DrawFilledRectangle: columns p1.X .. min(p1.X+width, ppm.width),
\* rows p1.Y .. min(p1.Y+height, ppm.height), both ends included, the points
\* outside the image skipped.
PPMDrawFilledRectangle(run, w, h, p1, rw, rh, c) ==
    LET maxX == Min(p1.X + rw, w)
        maxY == Min(p1.Y + rh, h)
        xy == LoopPairs(p1.X, maxX, p1.Y, maxY)
        inside == SelectSeq(xy, LAMBDA q : q[1] >= 0 /\ q[2] >= 0 /\ q[1] < w /\ q[2] < h)
    IN  PlotAll("ppm.go", run, w, h, [k \in 1..Len(inside) |-> Point(inside[k][1], inside[k][2])], c)

\* PPM2DrawLine with the endpoints taken in the order given: the loop runs
\* from p1 up to p2 and is empty when p1 lies beyond p2 on the driving axis.
PPM2DrawLineAsGiven(run, w, h, p1, p2, c) ==
    LET deltaX == p2.X - p1.X
        deltaY == p2.Y - p1.Y
    IN  IF Abs(deltaX) >= Abs(deltaY)
        THEN IF run.panic \/ deltaX = 0
             THEN [data |-> run.data, panic |-> TRUE]
             ELSE PlotAll("part_002", run, w, h,
                    [k \in 1..Max(0, p2.X - p1.X + 1) |->
                        Point(p1.X + k - 1, p1.Y + GoQuo(deltaY * (k - 1), deltaX))], c)
        ELSE PlotAll("part_002", run, w, h,
                    [k \in 1..Max(0, p2.Y - p1.Y + 1) |->
                        Point(p1.X + GoQuo(deltaX * (k - 1), deltaY), p1.Y + k - 1)], c)

\* part_002's DrawLine: the driving axis is x when |deltaX| >= |deltaY|; the
\* endpoints are swapped to run upwards but deltaX and deltaY keep the values
\* computed before the swap; the other coordinate is an integer division
\* by the driving delta, which panics when that is 0 (p1 = p2).
PPM2DrawLine(run, w, h, p1, p2, c) ==
    LET deltaX == p2.X - p1.X
        deltaY == p2.Y - p1.Y
    IN  IF Abs(deltaX) >= Abs(deltaY)
        THEN LET a == IF p1.X > p2.X THEN p2 ELSE p1
                 b == IF p1.X > p2.X THEN p1 ELSE p2
             IN  IF run.panic \/ deltaX = 0
                 THEN [data |-> run.data, panic |-> TRUE]
                 ELSE PlotAll("part_002", run, w, h,
                        [k \in 1..(b.X - a.X + 1) |->
                            Point(a.X + k - 1, a.Y + GoQuo(deltaY * (k - 1), deltaX))], c)
        ELSE LET a == IF p1.Y > p2.Y THEN p2 ELSE p1
                 b == IF p1.Y > p2.Y THEN p1 ELSE p2
             IN  PlotAll("part_002", run, w, h,
                        [k \in 1..(b.Y - a.Y + 1) |->
                            Point(a.X + GoQuo(deltaX * (k - 1), deltaY), a.Y + k - 1)], c)

\* The loop of ppm.go's DrawLine from column x on: y is the other coordinate
\* and err the error term times |deltaX| (the code keeps error as a float64
\* sum of |deltaY/deltaX|; the two agree on every comparison with 0.5 while
\* |deltaX| < 10, and for deltaX = 0 the float is NaN and never reaches 0.5).
\* A steep line is plotted as Set(y, x) when y < len(data) and x < len(data[y]),
\* another as Set(x, y) when x < len(data) and y < len(data[x]).
RECURSIVE PPMLineLoop(_, _, _, _, _, _, _, _, _, _, _)
PPMLineLoop(run, w, h, x, x2, y, err, deltaX, deltaY, steep, c) ==
    IF x > x2 THEN run
    ELSE LET plotted ==
                 IF steep
                 THEN IF y >= 0 /\ y < Len(run.data) /\ x >= 0 /\ x < Len(run.data[y + 1])
                      THEN Plot("ppm.go", run, w, h, y, x, c) ELSE run
                 ELSE IF x >= 0 /\ x < Len(run.data) /\ y >= 0 /\ y < Len(run.data[x + 1])
                      THEN Plot("ppm.go", run, w, h, x, y, c) ELSE run
             err1 == err + Abs(deltaY)
             step == deltaX # 0 /\ 2 * err1 >= Abs(deltaX)
         IN  PPMLineLoop(plotted, w, h, x + 1, x2,
                         IF step THEN (IF deltaY > 0 THEN y + 1 ELSE y - 1) ELSE y,
                         IF step THEN err1 - Abs(deltaX) ELSE err1,
                         deltaX, deltaY, steep, c)

\* ppm.go's DrawLine: a steep line has x and y exchanged, then the endpoints
\* are ordered by x (both deltas negated).
PPMDrawLine(run, w, h, p1, p2, c) ==
    LET steep == Abs(p2.Y - p1.Y) > Abs(p2.X - p1.X)
        a == IF steep THEN Point(p1.Y, p1.X) ELSE p1
        b == IF steep THEN Point(p2.Y, p2.X) ELSE p2
        dX == b.X - a.X
        dY == b.Y - a.Y
        lo == IF a.X > b.X THEN b ELSE a
        hi == IF a.X > b.X THEN a ELSE b
        deltaX == IF a.X > b.X THEN 0 - dX ELSE dX
        deltaY == IF a.X > b.X THEN 0 - dY ELSE dY
    IN  PPMLineLoop(run, w, h, lo.X, hi.X, lo.Y, 0, deltaX, deltaY, steep, c)

DrawLineOf(i, run, w, h, p1, p2, c) ==
    IF i = "ppm.go" THEN PPMDrawLine(run, w, h, p1, p2, c)
    ELSE PPM2DrawLine(run, w, h, p1, p2, c)

DrawFilledRectangleOf(i, run, w, h, p1, rw, rh, c) ==
    IF i = "ppm.go" THEN PPMDrawFilledRectangle(run, w, h, p1, rw, rh, c)
    ELSE PPM2DrawFilledRectangle(run, w, h, p1, rw, rh, c)

\* ppm.go's DrawRectangle: top, right, bottom and left sides.
PPMDrawRectangle(run, w, h, p1, rw, rh, c) ==
    LET p2 == Point(p1.X + rw, p1.Y)
        p3 == Point(p1.X + rw, p1.Y + rh)
        p4 == Point(p1.X, p1.Y + rh)
        r1 == PPMDrawLine(run, w, h, p1, p2, c)
        r2 == PPMDrawLine(r1, w, h, p2, p3, c)
        r3 == PPMDrawLine(r2, w, h, p3, p4, c)
    IN  PPMDrawLine(r3, w, h, p4, p1, c)

\* part_002's DrawRectangle: p1-p2, p2-p4, p4-p3, p3-p1.
PPM2DrawRectangle(run, w, h, p1, rw, rh, c) ==
    LET p2 == Point(p1.X + rw, p1.Y)
        p3 == Point(p1.X, p1.Y + rh)
        p4 == Point(p2.X, p3.Y)
        r1 == PPM2DrawLine(run, w, h, p1, p2, c)
        r2 == PPM2DrawLine(r1, w, h, p2, p4, c)
        r3 == PPM2DrawLine(r2, w, h, p4, p3, c)
    IN  PPM2DrawLine(r3, w, h, p3, p1, c)

DrawRectangleOf(i, run, w, h, p1, rw, rh, c) ==
    IF i = "ppm.go" THEN PPMDrawRectangle(run, w, h, p1, rw, rh, c)
    ELSE PPM2DrawRectangle(run, w, h, p1, rw, rh, c)

-----------------------------------------------------------------------------
(* The drawing specification: a PPM image, then one drawing call with       *)
(* points in and around the image.                                          *)

\* Largest width and largest height of the images drawn on.
MaxDrawW == 3

MaxDrawH == 2

\* The points tried reach this far beyond each edge of the image.
DrawMargin == 1

\* Largest width and height argument of the rectangle calls (the smallest is -1).
MaxShape == 3

Paper == Pixel(0, 0, 0)

Ink == Pixel(255, 0, 9)

\* The images drawn on: all Paper, or all Paper but one Ink pixel.
DrawImages(w, h) ==
    {Blank(w, h, Paper)} \cup
    {Store(Blank(w, h, Paper), x, y, Ink) : x \in 0..(w - 1), y \in 0..(h - 1)}

DrawPoints ==
    {Point(x, y) : x \in (0 - DrawMargin)..(width - 1 + DrawMargin),
                   y \in (0 - DrawMargin)..(height - 1 + DrawMargin)}

InitDraw ==
    /\ impl \in PPMImpls
    /\ kind = "PPM"
    /\ width \in 1..MaxDrawW
    /\ height \in 1..MaxDrawH
    /\ data \in DrawImages(width, height)
    /\ magicNumber = "P3"
    /\ max = 255
    /\ file = <<>>
    /\ status = "ok"
    /\ last = [op |-> "new"]

\* What every drawing call does with the run it ends in.
Drawn(run, call) ==
    /\ data' = run.data
    /\ status' = IF run.panic THEN "panic" ELSE "ok"
    /\ last' = call
    /\ UNCHANGED <<kind, impl, width, height, magicNumber, max, file>>

Fresh == status = "ok" /\ last.op = "new"

StartRun == [data |-> data, panic |-> FALSE]

DrawLine ==
    /\ Fresh
    /\ \E p1 \in DrawPoints, p2 \in DrawPoints :
          Drawn(DrawLineOf(impl, StartRun, width, height, p1, p2, Ink),
                [op |-> "DrawLine", p1 |-> p1, p2 |-> p2, c |-> Ink, pre |-> Snapshot])

DrawRectangle ==
    /\ Fresh
    /\ \E p1 \in DrawPoints, rw \in (0 - 1)..MaxShape, rh \in (0 - 1)..MaxShape :
          Drawn(DrawRectangleOf(impl, StartRun, width, height, p1, rw, rh, Ink),
                [op |-> "DrawRectangle", p1 |-> p1, w |-> rw, h |-> rh, c |-> Ink,
                 pre |-> Snapshot])

DrawFilledRectangle ==
    /\ Fresh
    /\ \E p1 \in DrawPoints, rw \in (0 - 1)..MaxShape, rh \in (0 - 1)..MaxShape :
          Drawn(DrawFilledRectangleOf(impl, StartRun, width, height, p1, rw, rh, Ink),
                [op |-> "DrawFilledRectangle", p1 |-> p1, w |-> rw, h |-> rh, c |-> Ink,
                 pre |-> Snapshot])

NextDraw == DrawLine \/ DrawRectangle \/ DrawFilledRectangle

SpecDraw == InitDraw /\ [][NextDraw]_vars

DrawOps == {"DrawLine", "DrawRectangle", "DrawFilledRectangle"}

\* The data is a grid of height rows of width samples.
Rectangular ==
    Len(data) = height /\ \A y \in 1..Len(data) : Len(data[y]) = width

\* C3: a drawing call with any integer arguments, also for shapes partly or
\* wholly outside the image, completes without failing, and the image keeps
\* its width and height (a write outside the grid is not possible in Go
\* without a panic, so "only in-bounds pixels are written" is the grid staying
\* rectangular of the same size).
C3_DrawingNeverFails ==
    (last.op \in DrawOps) =>
        /\ status = "ok"
        /\ width = last.pre.width
        /\ height = last.pre.height
        /\ Rectangular

-----------------------------------------------------------------------------
(* Files are sequences of bytes (0..255).  Text is written and read as the  *)
(* code does it: decimal digits, spaces and newlines.                       *)

LF == 10

SP == 32

Hash == 35

Minus == 45

Digit0 == 48

LetterP == 80

\* The bytes unicode.IsSpace accepts among single bytes: \t \n \v \f \r and ' '.
IsSpace(b) == b \in 9..13 \/ b = SP

IsDigit(b) == b >= Digit0 /\ b <= Digit0 + 9

\* The magic numbers the model writes into files, and their bytes.
Magics == {"P1", "P2", "P3", "P4", "P5", "P6", "P7"}

MagicBytes(m) ==
    CASE m = "P1" -> <<LetterP, Digit0 + 1>>
      [] m = "P2" -> <<LetterP, Digit0 + 2>>
      [] m = "P3" -> <<LetterP, Digit0 + 3>>
      [] m = "P4" -> <<LetterP, Digit0 + 4>>
      [] m = "P5" -> <<LetterP, Digit0 + 5>>
      [] m = "P6" -> <<LetterP, Digit0 + 6>>
      [] m = "P7" -> <<LetterP, Digit0 + 7>>

\* The string a sequence of bytes spells ("?" for any the model never writes).
MagicName(bs) ==
    IF \E m \in Magics : MagicBytes(m) = bs
    THEN CHOOSE m \in Magics : MagicBytes(m) = bs
    ELSE "?"

\* The decimal digits of n >= 0.
RECURSIVE Digits(_)
Digits(n) ==
    IF n < 10 THEN <<Digit0 + n>> ELSE Digits(n \div 10) \o <<Digit0 + (n % 10)>>

\* fmt's %d.
Itoa(n) == IF n < 0 THEN <<Minus>> \o Digits(0 - n) ELSE Digits(n)

\* The concatenation of a sequence of byte sequences.
RECURSIVE Concat(_)
Concat(ss) == IF ss = <<>> THEN <<>> ELSE Head(ss) \o Concat(Tail(ss))

\* a | b and a & b on non-negative integers.
RECURSIVE BitOr(_, _)
BitOr(a, b) ==
    IF a = 0 THEN b
    ELSE IF b = 0 THEN a
    ELSE (IF a % 2 = 1 \/ b % 2 = 1 THEN 1 ELSE 0) + 2 * BitOr(a \div 2, b \div 2)

RECURSIVE BitAnd(_, _)
BitAnd(a, b) ==
    IF a = 0 \/ b = 0 THEN 0
    ELSE (IF a % 2 = 1 /\ b % 2 = 1 THEN 1 ELSE 0) + 2 * BitAnd(a \div 2, b \div 2)

\* 1 << k
Shl1(k) == 2 ^ k

-----------------------------------------------------------------------------
(* Save.  Each returns the bytes the file holds afterwards and whether the  *)
(* call returned an error.  No write fails (the file system is not          *)
(* modelled), so the only error is the one the code raises itself.          *)

\* "%d %d\n"
DimLine(w, h) == Itoa(w) \o <<SP>> \o Itoa(h) \o <<LF>>

\* PackRow with the pixels of a byte taken from its least significant bit up.
RECURSIVE PackRowLowBitFirst(_, _, _)
PackRowLowBitFirst(row, x, acc) ==
    IF x >= Len(row) THEN acc
    ELSE LET grown == IF x % 8 = 0 THEN Append(acc, 0) ELSE acc
         IN  PackRowLowBitFirst(row, x + 1,
                 IF row[x + 1]
                 THEN [grown EXCEPT ![(x \div 8) + 1] = BitOr(@, Shl1(x % 8))]
                 ELSE grown)

\* The P4 bytes of one row, from column x on: a new byte every 8 pixels, the
\* bit 7 - x%8 of byte x/8 set for a set pixel.
RECURSIVE PackRow(_, _, _)
PackRow(row, x, acc) ==
    IF x >= Len(row) THEN acc
    ELSE LET grown == IF x % 8 = 0 THEN Append(acc, 0) ELSE acc
             byteIndex == x \div 8
             bitIndex == x % 8
         IN  PackRow(row, x + 1,
                     IF row[x + 1]
                     THEN [grown EXCEPT ![byteIndex + 1] = BitOr(@, Shl1(7 - bitIndex))]
                     ELSE grown)

PBMSave(img) ==
    LET header == MagicBytes(img.magicNumber) \o <<LF>> \o DimLine(img.width, img.height)
        ascii == Concat([y \in 1..Len(img.data) |->
                    Concat([x \in 1..Len(img.data[y]) |->
                        IF img.data[y][x] THEN <<Digit0 + 1, SP>> ELSE <<Digit0, SP>>])
                    \o <<LF>>])
        binary == Concat([y \in 1..img.height |->
                    PackRow(SubSeq(img.data[y], 1, img.width), 0, <<>>)])
    IN  [file |-> header \o (IF img.magicNumber = "P1" THEN ascii
                             ELSE IF img.magicNumber = "P4" THEN binary
                             ELSE <<>>),
         err |-> FALSE]

\* savePGM: one byte per sample, or the samples in decimal with a space
\* between two of them and a newline after each row.
SavePGMBody(img, isBinary) ==
    Concat([y \in 1..img.height |->
        IF isBinary
        THEN [x \in 1..img.width |-> img.data[y][x]]
        ELSE Concat([x \in 1..img.width |->
                 Itoa(img.data[y][x]) \o (IF x < img.width THEN <<SP>> ELSE <<>>)])
             \o <<LF>>])

PGMSave(img) ==
    LET header == MagicBytes(img.magicNumber) \o <<LF>> \o DimLine(img.width, img.height)
                  \o Itoa(img.max) \o <<LF>>
    IN  [file |-> header \o (IF img.magicNumber = "P2" THEN SavePGMBody(img, FALSE)
                             ELSE IF img.magicNumber = "P5" THEN SavePGMBody(img, TRUE)
                             ELSE <<>>),
         err |-> FALSE]

\* The Save of src/pbm.go:323: the samples in decimal whatever the magic number.
PGM2Save(img) ==
    LET header == MagicBytes(img.magicNumber) \o <<LF>> \o DimLine(img.width, img.height)
                  \o Itoa(img.max) \o <<LF>>
    IN  [file |-> header \o
                  Concat([y \in 1..Len(img.data) |->
                      Concat([x \in 1..Len(img.data[y]) |-> Itoa(img.data[y][x]) \o <<SP>>])
                      \o <<LF>>]),
         err |-> FALSE]

\* "%d %d %d "
PixelText(px) == Itoa(px.R) \o <<SP>> \o Itoa(px.G) \o <<SP>> \o Itoa(px.B) \o <<SP>>

\* ppm.go's Save: an error, and an empty file, unless the magic number is P3 or P6.
PPMSave(img) ==
    LET header == MagicBytes(img.magicNumber) \o <<LF>> \o DimLine(img.width, img.height)
                  \o Itoa(img.max) \o <<LF>>
        triple(px) == <<px.R, px.G, px.B>>
        body == Concat([y \in 1..img.height |->
                    IF img.magicNumber = "P6"
                    THEN [k \in 1..(3 * img.width) |->
                             triple(img.data[y][(k + 2) \div 3])[((k - 1) % 3) + 1]]
                    ELSE Concat([x \in 1..img.width |-> PixelText(img.data[y][x])])
                         \o <<LF>>])
    IN  IF img.magicNumber = "P6" \/ img.magicNumber = "P3"
        THEN [file |-> header \o body, err |-> FALSE]
        ELSE [file |-> <<>>, err |-> TRUE]

\* part_002's Save: the samples in decimal whatever the magic number.
PPM2Save(img) ==
    LET header == MagicBytes(img.magicNumber) \o <<LF>> \o DimLine(img.width, img.height)
                  \o Itoa(img.max) \o <<LF>>
    IN  [file |-> header \o
                  Concat([y \in 1..Len(img.data) |->
                      Concat([x \in 1..Len(img.data[y]) |-> PixelText(img.data[y][x])])
                      \o <<LF>>]),
         err |-> FALSE]

SaveOf(i, img) ==
    CASE i = "pbm.go" -> PBMSave(img)
      [] i = "pgm.go" -> PGMSave(img)
      [] i = "pbm.go/PGM" -> PGM2Save(img)
      [] i = "ppm.go" -> PPMSave(img)
      [] i = "part_002" -> PPM2Save(img)

-----------------------------------------------------------------------------
(* Reading text: lines, fields and numbers.                                 *)

Plus == 43

\* The 1-based index of the first newline after the first pos bytes of f, or 0.
NextLF(f, pos) ==
    IF \E i \in (pos + 1)..Len(f) : f[i] = LF
    THEN CHOOSE i \in (pos + 1)..Len(f) :
             f[i] = LF /\ \A j \in (pos + 1)..(i - 1) : f[j] # LF
    ELSE 0

\* strings.TrimSpace
TrimSpace(s) ==
    IF \A i \in 1..Len(s) : IsSpace(s[i]) THEN <<>>
    ELSE LET a == CHOOSE i \in 1..Len(s) :
                      ~IsSpace(s[i]) /\ \A j \in 1..(i - 1) : IsSpace(s[j])
             b == CHOOSE i \in 1..Len(s) :
                      ~IsSpace(s[i]) /\ \A j \in (i + 1)..Len(s) : IsSpace(s[j])
         IN  SubSeq(s, a, b)

\* strings.Fields, and the tokens bufio.ScanWords yields: the maximal runs of
\* bytes that are not white space.
RECURSIVE FieldsFrom(_, _, _, _)
FieldsFrom(s, i, cur, acc) ==
    IF i > Len(s) THEN (IF cur = <<>> THEN acc ELSE Append(acc, cur))
    ELSE IF IsSpace(s[i])
         THEN FieldsFrom(s, i + 1, <<>>, IF cur = <<>> THEN acc ELSE Append(acc, cur))
         ELSE FieldsFrom(s, i + 1, Append(cur, s[i]), acc)

Fields(s) == FieldsFrom(s, 1, <<>>, <<>>)

\* The run of decimal digits of s that starts at index i: its value, its
\* length and the index after it.
RECURSIVE DigitRun(_, _, _, _)
DigitRun(s, i, val, n) ==
    IF i <= Len(s) /\ IsDigit(s[i])
    THEN DigitRun(s, i + 1, 10 * val + (s[i] - Digit0), n + 1)
    ELSE [val |-> val, n |-> n, next |-> i]

\* The index of the first byte of s at or after i that is not white space.
RECURSIVE SkipSpace(_, _)
SkipSpace(s, i) ==
    IF i <= Len(s) /\ IsSpace(s[i]) THEN SkipSpace(s, i + 1) ELSE i

\* fmt's %d into an int, from index i of s: white space, an optional sign, digits.
ScanInt(s, i) ==
    LET j == SkipSpace(s, i)
        signed == j <= Len(s) /\ (s[j] = Plus \/ s[j] = Minus)
        run == DigitRun(s, IF signed THEN j + 1 ELSE j, 0, 0)
    IN  IF run.n = 0 THEN [ok |-> FALSE, val |-> 0, next |-> j]
        ELSE [ok |-> TRUE,
              val |-> IF signed /\ s[j] = Minus THEN 0 - run.val ELSE run.val,
              next |-> run.next]

\* fmt's %d into a uint8: white space, digits (no sign), an error above 255.
ScanUint8(s, i) ==
    LET j == SkipSpace(s, i)
        run == DigitRun(s, j, 0, 0)
    IN  IF run.n = 0 \/ run.val > 255 THEN [ok |-> FALSE, val |-> 0, next |-> j]
        ELSE [ok |-> TRUE, val |-> run.val, next |-> run.next]

\* strconv.Atoi: the whole string is an optional sign and digits.
Atoi(s) ==
    LET r == ScanInt(s, 1)
    IN  IF s # <<>> /\ ~IsSpace(s[1]) /\ r.ok /\ r.next = Len(s) + 1
        THEN [ok |-> TRUE, val |-> r.val]
        ELSE [ok |-> FALSE, val |-> 0]

\* fmt.Sscanf(s, "%d %d", &a, &b)
ScanTwoInts(s) ==
    LET a == ScanInt(s, 1)
        b == ScanInt(s, a.next)
    IN  IF a.ok /\ b.ok THEN [ok |-> TRUE, a |-> a.val, b |-> b.val]
        ELSE [ok |-> FALSE, a |-> 0, b |-> 0]

\* uint8(n)
Uint8(n) == n % 256

-----------------------------------------------------------------------------
(* bufio.Reader over the file.  A reader state is pos, the number of bytes  *)
(* handed out so far, and got, the number of bytes fetched from the file    *)
(* into the buffer so far; the buffer holds bytes pos+1 .. got of the file. *)

\* The size of the buffer bufio.NewReader allocates.
DefaultBufSize == 4096

NewReader == [pos |-> 0, got |-> 0]

\* got after ReadString has searched up to the newline at index e (fill after
\* fill, a full buffer being handed over whole before the next fill).
RECURSIVE FetchedFor(_, _, _, _)
FetchedFor(f, pos, got, e) ==
    IF e <= got THEN got
    ELSE IF got - pos >= DefaultBufSize THEN FetchedFor(f, got, got, e)
    ELSE FetchedFor(f, pos, Min(Len(f), pos + DefaultBufSize), e)

\* reader.ReadString('\n'): the line with its newline, or an error at the end
\* of the file (the code drops what was read then).
ReadString(f, rd) ==
    LET e == NextLF(f, rd.pos)
    IN  IF e = 0 THEN [ok |-> FALSE, line |-> <<>>, rd |-> rd]
        ELSE [ok |-> TRUE, line |-> SubSeq(f, rd.pos + 1, e),
              rd |-> [pos |-> e, got |-> FetchedFor(f, rd.pos, rd.got, e)]]

\* reader.Read(p) with len(p) = n: what the buffer holds, at most n bytes;
\* with an empty buffer one read of the file, into p itself when n is at
\* least the buffer's size.  n bytes are returned only if they are buffered.
ReaderRead(f, rd, n) ==
    IF n = 0 THEN [n |-> 0, eof |-> FALSE, bytes |-> <<>>, rd |-> rd]
    ELSE IF rd.pos = rd.got
    THEN LET room == IF n >= DefaultBufSize THEN n ELSE DefaultBufSize
             got1 == Min(Len(f), rd.pos + room)
             k == Min(n, got1 - rd.pos)
         IN  [n |-> k, eof |-> k = 0, bytes |-> SubSeq(f, rd.pos + 1, rd.pos + k),
              rd |-> [pos |-> rd.pos + k, got |-> got1]]
    ELSE LET k == Min(n, rd.got - rd.pos)
         IN  [n |-> k, eof |-> FALSE, bytes |-> SubSeq(f, rd.pos + 1, rd.pos + k),
              rd |-> [pos |-> rd.pos + k, got |-> rd.got]]

-----------------------------------------------------------------------------
(* The results of the Read functions: (image, error), or a panic.           *)

NilImage == [data |-> <<>>, width |-> 0, height |-> 0, magicNumber |-> "", max |-> 0]

\* return nil, err (err non-nil)
Failed == [nil |-> TRUE, err |-> TRUE, panic |-> FALSE, img |-> NilImage]

\* return nil, err (err nil)
NilNil == [nil |-> TRUE, err |-> FALSE, panic |-> FALSE, img |-> NilImage]

\* make with a negative length
Panicked == [nil |-> TRUE, err |-> FALSE, panic |-> TRUE, img |-> NilImage]

Returned(d, w, h, m, mx) ==
    [nil |-> FALSE, err |-> FALSE, panic |-> FALSE,
     img |-> [data |-> d, width |-> w, height |-> h, magicNumber |-> m, max |-> mx]]

-----------------------------------------------------------------------------
(* ReadPBM (src/pbm.go:19-105).                                             *)

\* The loop that skips '#' lines and lines that do not hold two fields, and
\* converts the two fields of the first line that does.
RECURSIVE PBMDimensions(_, _)
PBMDimensions(f, rd) ==
    LET r == ReadString(f, rd)
    IN  IF ~r.ok THEN [ok |-> FALSE, w |-> 0, h |-> 0, rd |-> rd]
        ELSE IF r.line[1] = Hash THEN PBMDimensions(f, r.rd)
        ELSE LET parts == Fields(r.line)
             IN  IF Len(parts) # 2 THEN PBMDimensions(f, r.rd)
                 ELSE LET w == Atoi(parts[1])
                          h == Atoi(parts[2])
                      IN  IF w.ok /\ h.ok
                          THEN [ok |-> TRUE, w |-> w.val, h |-> h.val, rd |-> r.rd]
                          ELSE [ok |-> FALSE, w |-> 0, h |-> 0, rd |-> r.rd]

\* The P1 body: every byte that is not '0' or '1' is skipped; width*height
\* digits are needed.
PBMReadP1(f, pos, w, h, m) ==
    LET rest == SubSeq(f, pos + 1, Len(f))
        bits == SelectSeq(rest, LAMBDA b : b = Digit0 \/ b = Digit0 + 1)
    IN  IF h > 0 /\ w > 0 /\ Len(bits) < w * h THEN Failed
        ELSE Returned([y \in 1..h |-> [x \in 1..w |->
                           bits[(y - 1) * w + x] = Digit0 + 1]], w, h, m, NoMax)

\* PBMReadP4 with the rows packed one after the other, no row starting a byte.
PBMReadP4Unpadded(f, pos, w, h, m) ==
    LET have == Len(f) - pos
        bitAt(y, x) == (y - 1) * w + (x - 1)
    IN  IF 8 * have < w * h THEN Failed
        ELSE Returned([y \in 1..h |-> [x \in 1..w |->
                          BitAnd(f[pos + 1 + (bitAt(y, x) \div 8)],
                                 Shl1(7 - (bitAt(y, x) % 8))) # 0]],
                      w, h, m, NoMax)

\* PBMReadP4 with the end of the file ignored wherever it comes: the pixels
\* of every missing byte stay false.
PBMReadP4Lenient(f, pos, w, h, m) ==
    LET perRow == IF w > 0 THEN (w + 7) \div 8 ELSE 0
        have == Len(f) - pos
        byteAt(y, x) == (y * perRow) + (x \div 8)
    IN  Returned([y \in 1..h |-> [x \in 1..w |->
            /\ byteAt(y - 1, x - 1) < have
            /\ BitAnd(f[pos + 1 + byteAt(y - 1, x - 1)], Shl1(7 - ((x - 1) % 8))) # 0]],
            w, h, m, NoMax)

\* The P4 body: a byte for every 8 columns of every row; the end of the file
\* is an error unless it comes where the last byte of the last row should be
\* (y = height-1 and x >= width-8), whose pixels then stay false.
PBMReadP4(f, pos, w, h, m) ==
    LET perRow == IF w > 0 THEN (w + 7) \div 8 ELSE 0
        need == IF h > 0 THEN h * perRow ELSE 0
        have == Len(f) - pos
        missY == have \div perRow
        missX == 8 * (have % perRow)
        byteAt(y, x) == (y * perRow) + (x \div 8)
    IN  IF have < need /\ ~(missY = h - 1 /\ missX >= w - 8) THEN Failed
        ELSE Returned([y \in 1..h |-> [x \in 1..w |->
                 /\ byteAt(y - 1, x - 1) < have
                 /\ BitAnd(f[pos + 1 + byteAt(y - 1, x - 1)], Shl1(7 - ((x - 1) % 8))) # 0]],
                 w, h, m, NoMax)

PBMRead(f) ==
    LET first == ReadString(f, NewReader)
        m == MagicName(TrimSpace(first.line))
        dim == PBMDimensions(f, first.rd)
    IN  IF ~first.ok THEN Failed
        ELSE IF ~dim.ok THEN Failed
        ELSE IF dim.h < 0 \/ (dim.h > 0 /\ dim.w < 0) THEN Panicked
        ELSE IF m = "P1" THEN PBMReadP1(f, dim.rd.pos, dim.w, dim.h, m)
        ELSE IF m = "P4" THEN PBMReadP4(f, dim.rd.pos, dim.w, dim.h, m)
        ELSE Failed

-----------------------------------------------------------------------------
(* ReadPGM of src/pgm.go:18-115 (bufio.Reader, line by line).               *)

\* One P2 row: the fields of the line, each a uint8, the row left at 0 where
\* the line has no field; a field beyond the width is an error.
RECURSIVE PGMFieldsToRow(_, _, _, _)
PGMFieldsToRow(fields, x, w, row) ==
    IF x >= Len(fields) THEN [ok |-> TRUE, row |-> row]
    ELSE IF x >= w THEN [ok |-> FALSE, row |-> row]
    ELSE LET v == ScanUint8(fields[x + 1], 1)
         IN  IF ~v.ok THEN [ok |-> FALSE, row |-> row]
             ELSE PGMFieldsToRow(fields, x + 1, w, [row EXCEPT ![x + 1] = v.val])

RECURSIVE PGMReadP2Rows(_, _, _, _, _, _)
PGMReadP2Rows(f, rd, y, w, h, rows) ==
    IF y >= h THEN [ok |-> TRUE, rows |-> rows]
    ELSE LET r == ReadString(f, rd)
             row == PGMFieldsToRow(Fields(r.line), 0, w, [x \in 1..w |-> 0])
         IN  IF ~r.ok \/ ~row.ok THEN [ok |-> FALSE, rows |-> rows]
             ELSE PGMReadP2Rows(f, r.rd, y + 1, w, h, Append(rows, row.row))

\* The P5 rows: one reader.Read per row, an error when it returns fewer bytes
\* than the width.
RECURSIVE PGMReadP5Rows(_, _, _, _, _, _)
PGMReadP5Rows(f, rd, y, w, h, rows) ==
    IF y >= h THEN [ok |-> TRUE, rows |-> rows]
    ELSE LET r == ReaderRead(f, rd, w)
         IN  IF r.eof \/ r.n < w THEN [ok |-> FALSE, rows |-> rows]
             ELSE PGMReadP5Rows(f, r.rd, y + 1, w, h, Append(rows, r.bytes))

PGMRead(f) ==
    LET first == ReadString(f, NewReader)
        m == MagicName(TrimSpace(first.line))
        second == ReadString(f, first.rd)
        dim == ScanTwoInts(TrimSpace(second.line))
        third == ReadString(f, second.rd)
        maxValue == ScanInt(TrimSpace(third.line), 1)
        body == IF m = "P2" THEN PGMReadP2Rows(f, third.rd, 0, dim.a, dim.b, <<>>)
                ELSE PGMReadP5Rows(f, third.rd, 0, dim.a, dim.b, <<>>)
    IN  IF ~first.ok THEN Failed
        ELSE IF m # "P2" /\ m # "P5" THEN Failed
        ELSE IF ~second.ok \/ ~dim.ok THEN Failed
        ELSE IF dim.a <= 0 \/ dim.b <= 0 THEN Failed
        ELSE IF ~third.ok \/ ~maxValue.ok THEN Failed
        ELSE IF ~body.ok THEN Failed
        ELSE Returned(body.rows, dim.a, dim.b, m, Uint8(maxValue.val))

-----------------------------------------------------------------------------
(* ReadPGM of src/pbm.go:226-305 (bufio.Scanner, word by word).             *)

\* The samples of rows y.. as uint8 words from index t of the words.
PGM2Samples(words, t, w, h) ==
    IF \E k \in 1..(w * h) : t + k - 1 > Len(words) \/ ~ScanUint8(words[t + k - 1], 1).ok
    THEN [ok |-> FALSE, rows |-> <<>>]
    ELSE [ok |-> TRUE,
          rows |-> [y \in 1..h |-> [x \in 1..w |->
                       ScanUint8(words[t + (y - 1) * w + (x - 1)], 1).val]]]

PGM2Read(f) ==
    LET words == Fields(f)
        m == MagicName(words[1])
        w == ScanInt(words[2], 1)
        h == ScanInt(words[3], 1)
        maxVal == ScanUint8(words[4], 1)
        body == PGM2Samples(words, 5, w.val, h.val)
    IN  IF Len(words) < 1 THEN Failed
        ELSE IF m # "P2" /\ m # "P5" THEN Failed
        ELSE IF Len(words) < 2 \/ ~w.ok THEN Failed
        ELSE IF Len(words) < 3 \/ ~h.ok THEN Failed
        ELSE IF Len(words) < 4 \/ ~maxVal.ok THEN Failed
        ELSE IF h.val < 0 \/ (h.val > 0 /\ w.val < 0) THEN Panicked
        ELSE IF h.val > 0 /\ w.val > 0 /\ ~body.ok THEN Failed
        ELSE Returned(IF w.val > 0 THEN body.rows ELSE [y \in 1..h.val |-> <<>>],
                      w.val, h.val, m, maxVal.val)

-----------------------------------------------------------------------------
(* ReadPPM of src/ppm.go:25-118 (bufio.Reader, line by line).               *)

\* One P3 row from the fields of its line.  res is "nilnil" where the code
\* returns nil with the nil error of the last call, "err" where a field is
\* not a number.
RECURSIVE PPMFieldsToRow(_, _, _, _)
PPMFieldsToRow(fields, x, w, row) ==
    IF x >= w THEN [res |-> "ok", row |-> row]
    ELSE IF x * 3 + 2 >= Len(fields) THEN [res |-> "nilnil", row |-> row]
    ELSE LET r == ScanInt(fields[x * 3 + 1], 1)
             g == ScanInt(fields[x * 3 + 2], 1)
             b == ScanInt(fields[x * 3 + 3], 1)
         IN  IF ~r.ok \/ ~g.ok \/ ~b.ok THEN [res |-> "err", row |-> row]
             ELSE PPMFieldsToRow(fields, x + 1, w,
                      Append(row, Pixel(Uint8(r.val), Uint8(g.val), Uint8(b.val))))

RECURSIVE PPMReadP3Rows(_, _, _, _, _, _)
PPMReadP3Rows(f, rd, y, w, h, rows) ==
    IF y >= h THEN [res |-> "ok", rows |-> rows]
    ELSE LET r == ReadString(f, rd)
             row == PPMFieldsToRow(Fields(r.line), 0, w, <<>>)
         IN  IF ~r.ok THEN [res |-> "err", rows |-> rows]
             ELSE IF w < 0 THEN [res |-> "panic", rows |-> rows]
             ELSE IF row.res # "ok" THEN [res |-> row.res, rows |-> rows]
             ELSE PPMReadP3Rows(f, r.rd, y + 1, w, h, Append(rows, row.row))

\* The P6 rows: one reader.Read per row into a zeroed slice, the count it
\* returns being dropped.
RECURSIVE PPMReadP6Rows(_, _, _, _, _, _)
PPMReadP6Rows(f, rd, y, w, h, rows) ==
    IF y >= h THEN [res |-> "ok", rows |-> rows]
    ELSE IF w < 0 THEN [res |-> "panic", rows |-> rows]
    ELSE LET r == ReaderRead(f, rd, w * 3)
             byte(k) == IF k <= r.n THEN r.bytes[k] ELSE 0
         IN  IF r.eof THEN [res |-> "err", rows |-> rows]
             ELSE PPMReadP6Rows(f, r.rd, y + 1, w, h,
                      Append(rows, [x \in 1..w |->
                          Pixel(byte(3 * x - 2), byte(3 * x - 1), byte(3 * x))]))

PPMRead(f) ==
    LET first == ReadString(f, NewReader)
        m == MagicName(TrimSpace(first.line))
        second == ReadString(f, first.rd)
        dim == ScanTwoInts(TrimSpace(second.line))
        third == ReadString(f, second.rd)
        maxValue == ScanInt(TrimSpace(third.line), 1)
        body == IF m = "P3" THEN PPMReadP3Rows(f, third.rd, 0, dim.a, dim.b, <<>>)
                ELSE PPMReadP6Rows(f, third.rd, 0, dim.a, dim.b, <<>>)
    IN  IF ~first.ok THEN Failed
        ELSE IF m # "P3" /\ m # "P6" THEN NilNil
        ELSE IF ~second.ok \/ ~dim.ok THEN Failed
        ELSE IF ~third.ok \/ ~maxValue.ok THEN Failed
        ELSE IF dim.b < 0 THEN Panicked
        ELSE IF body.res = "panic" THEN Panicked
        ELSE IF body.res = "nilnil" THEN NilNil
        ELSE IF body.res = "err" THEN Failed
        ELSE Returned(body.rows, dim.a, dim.b, m, Uint8(maxValue.val))

-----------------------------------------------------------------------------
(* ReadPPM of src/unnamed/part_002:30-123 (bufio.Scanner, word by word).    *)

\* The pixels from index t of the words, three uint8 words each.
PPM2Samples(words, t, w, h) ==
    IF \E k \in 1..(3 * w * h) : t + k - 1 > Len(words) \/ ~ScanUint8(words[t + k - 1], 1).ok
    THEN [ok |-> FALSE, rows |-> <<>>]
    ELSE LET word(y, x, c) == ScanUint8(words[t + 3 * ((y - 1) * w + (x - 1)) + c], 1).val
         IN  [ok |-> TRUE,
              rows |-> [y \in 1..h |-> [x \in 1..w |->
                           Pixel(word(y, x, 0), word(y, x, 1), word(y, x, 2))]]]

PPM2Read(f) ==
    LET words == Fields(f)
        m == MagicName(words[1])
        w == ScanInt(words[2], 1)
        h == ScanInt(words[3], 1)
        maxVal == ScanInt(words[4], 1)
        body == PPM2Samples(words, 5, w.val, h.val)
    IN  IF Len(words) < 1 THEN Failed
        ELSE IF m # "P3" /\ m # "P6" THEN Failed
        ELSE IF Len(words) < 2 \/ ~w.ok THEN Failed
        ELSE IF Len(words) < 3 \/ ~h.ok THEN Failed
        ELSE IF Len(words) < 4 \/ ~maxVal.ok THEN Failed
        ELSE IF h.val < 0 \/ (h.val > 0 /\ w.val < 0) THEN Panicked
        ELSE IF h.val > 0 /\ w.val > 0 /\ ~body.ok THEN Failed
        ELSE Returned(IF w.val > 0 THEN body.rows ELSE [y \in 1..h.val |-> <<>>],
                      w.val, h.val, m, Uint8(maxVal.val))

ReadOf(i, f) ==
    CASE i = "pbm.go" -> PBMRead(f)
      [] i = "pgm.go" -> PGMRead(f)
      [] i = "pbm.go/PGM" -> PGM2Read(f)
      [] i = "ppm.go" -> PPMRead(f)
      [] i = "part_002" -> PPM2Read(f)

-----------------------------------------------------------------------------
(* Save then Read.  An image of each kind is built, saved to the file, and  *)
(* the file is read back by the Read function of the same source file into  *)
(* the object.                                                              *)

\* Every image of at most MaxBits pixels is a bitmap tried.
MaxBits == 8

\* The widest bitmap tried.
MaxWide == 10

\* Every image of at most MaxCells pixels is a graymap or a pixmap tried.
MaxCells == 4

\* The width of the one-row graymap whose file is longer than the reader's buffer.
LongRow == 4083

\* The width of the one-row pixmap whose file is longer than the reader's buffer.
LongPixels == 1361

Shapes(n) == {wh \in (1..n) \X (1..n) : wh[1] * wh[2] <= n}

\* Rows of w pixels: no pixel set, every pixel set, one pixel set, or every
\* other pixel and the last one set (1,0,1,0,1,0,1,0,1,1 for w = 10).
WideRows(w) ==
    {[x \in 1..w |-> FALSE], [x \in 1..w |-> TRUE], [x \in 1..w |-> x % 2 = 1 \/ x = w]}
        \cup {[x \in 1..w |-> x = k] : k \in 1..w}

\* Bitmaps of one or two rows that take two bytes each, the second one padded.
WideBitmaps ==
    UNION {{[width |-> w, data |-> <<r1>>] : r1 \in WideRows(w)}
              \cup {[width |-> w, data |-> <<r1, r2>>] :
                       r1 \in WideRows(w), r2 \in WideRows(w)} :
              w \in 9..MaxWide}

Bitmaps ==
    UNION {{[width |-> wh[1], data |-> d] : d \in [1..wh[2] -> [1..wh[1] -> BOOLEAN]]} :
              wh \in Shapes(MaxBits)}
        \cup WideBitmaps

\* The max values tried.
CodecMaxima == {15, 255}

GraySamples(mx) == {0, 10, mx}

ColourSamples(mx) == {Pixel(0, 0, 0), Pixel(mx, 10, 32)}

Graymaps(mx) ==
    UNION {{[width |-> wh[1], data |-> d] :
               d \in [1..wh[2] -> [1..wh[1] -> GraySamples(mx)]]} : wh \in Shapes(MaxCells)}

Pixmaps(mx) ==
    UNION {{[width |-> wh[1], data |-> d] :
               d \in [1..wh[2] -> [1..wh[1] -> ColourSamples(mx)]]} : wh \in Shapes(MaxCells)}

InitCodecSmall ==
    /\ impl \in PBMImpls \cup PGMImpls \cup PPMImpls
    /\ kind = KindOf(impl)
    /\ magicNumber \in (CASE kind = "PBM" -> {"P1", "P4"}
                          [] kind = "PGM" -> {"P2", "P5"}
                          [] kind = "PPM" -> {"P3", "P6"})
    /\ max \in (IF kind = "PBM" THEN {NoMax} ELSE CodecMaxima)
    /\ \E img \in (CASE kind = "PBM" -> Bitmaps
                     [] kind = "PGM" -> Graymaps(max)
                     [] kind = "PPM" -> Pixmaps(max)) :
           /\ data = img.data
           /\ width = img.width
           /\ height = Len(img.data)

InitCodecLong ==
    /\ max = 255
    /\ height = 1
    /\ \/ /\ impl = "pgm.go"
          /\ magicNumber = "P5"
          /\ width = LongRow
          /\ data = <<[x \in 1..LongRow |-> 7]>>
       \/ /\ impl = "ppm.go"
          /\ magicNumber = "P6"
          /\ width = LongPixels
          /\ data = <<[x \in 1..LongPixels |-> Pixel(7, 8, 9)]>>
    /\ kind = KindOf(impl)

InitCodec ==
    /\ InitCodecSmall \/ InitCodecLong
    /\ file = <<>>
    /\ status = "ok"
    /\ last = [op |-> "new"]

\* img.Save(filename) on the image as built.
Save ==
    /\ status = "ok"
    /\ last.op = "new"
    /\ LET r == SaveOf(impl, Snapshot)
       IN  /\ file' = r.file
           /\ last' = [op |-> "Save", err |-> r.err, pre |-> Snapshot]
    /\ UNCHANGED <<kind, impl, data, width, height, magicNumber, max, status>>

\* The object and the record of the call after a Read function has returned
\* r: the object is the image returned, or what it was when none is returned.
ReadInto(r, input) ==
    /\ data' = IF r.nil THEN data ELSE r.img.data
    /\ width' = IF r.nil THEN width ELSE r.img.width
    /\ height' = IF r.nil THEN height ELSE r.img.height
    /\ magicNumber' = IF r.nil THEN magicNumber ELSE r.img.magicNumber
    /\ max' = IF r.nil THEN max ELSE r.img.max
    /\ status' = IF r.panic THEN "panic" ELSE "ok"
    /\ last' = [op |-> "Read", nil |-> r.nil, err |-> r.err, input |-> input]

\* img, err = Read(filename) on the file a Save has written.
Read ==
    /\ status = "ok"
    /\ last.op = "Save"
    /\ ReadInto(ReadOf(impl, file), last.pre)
    /\ UNCHANGED <<kind, impl, file>>

NextCodec == Save \/ Read

SpecCodec == InitCodec /\ [][NextCodec]_vars

\* C4: after Save and the matching Read, an image is returned without error
\* and it has the width, height, magic number, max value and samples of the
\* image that was saved.
C4_RoundTrip ==
    (last.op = "Read") =>
        (status = "ok" /\ ~last.nil /\ ~last.err /\ Snapshot = last.input)

\* The bytes of the file after the magic number line and the dimension line.
SavedBody ==
    SubSeq(file, Len(MagicBytes(magicNumber)) + 1 + Len(DimLine(width, height)) + 1, Len(file))

\* Bit b of a byte, bit 7 being the most significant one.
BitOf(byte, b) == (byte \div (2 ^ b)) % 2

\* C5: PBM.Save with magic number P4 writes ceil(width/8) bytes for every
\* row; pixel x of a row is bit 7 - x mod 8 of byte x div 8 of the row, 1 for
\* a set pixel; the bits at positions >= width are 0; the row
\* 1,0,1,0,1,0,1,0,1,1 of width 10 gives the bytes 0b10101010, 0b11000000.
C5_SaveP4Packing ==
    (last.op = "Save" /\ kind = "PBM" /\ magicNumber = "P4") =>
        LET perRow == (width + 7) \div 8
        IN  /\ ~last.err
            /\ Len(SavedBody) = perRow * height
            /\ \A y \in 0..(height - 1) : \A i \in 0..(perRow - 1) : \A b \in 0..7 :
                   LET x == 8 * i + (7 - b)
                   IN  BitOf(SavedBody[y * perRow + i + 1], b) =
                           IF x < width /\ data[y + 1][x + 1] THEN 1 ELSE 0
            /\ (width = 10 /\ data[1] = <<TRUE, FALSE, TRUE, FALSE, TRUE,
                                           FALSE, TRUE, FALSE, TRUE, TRUE>>)
                   => SubSeq(SavedBody, 1, 2) = <<170, 192>>

\* The row of width 10 of C5 has been saved as P4, as the first of two rows.
C5_Witness ==
    /\ last.op = "Save"
    /\ kind = "PBM"
    /\ magicNumber = "P4"
    /\ width = 10
    /\ height = 2
    /\ data[1] = <<TRUE, FALSE, TRUE, FALSE, TRUE, FALSE, TRUE, FALSE, TRUE, TRUE>>
    /\ data[2] = [x \in 1..10 |-> x = 10]
    /\ SavedBody = <<170, 192, 0, 64>>

-----------------------------------------------------------------------------
(* Reading a stream that was not written by Save.  A stream is described by *)
(* its magic number, its width, height and max value tokens, its body and   *)
(* the number of samples cut off the end of the body; the file holds the    *)
(* magic number line, the dimension line, the max value line where the      *)
(* format has one, and the body.                                            *)

\* The largest width or height token tried.
MaxDecodeDim == 2

\* The smallest width or height token tried is -MinusDims.
MinusDims == 1

\* The largest number of samples cut off the end of a body.
MaxCut == 2

\* The largest width and height of the P4 streams whose bytes are arbitrary.
MaxP4W == 9
MaxP4H == 2

DimTokens == (0 - MinusDims)..MaxDecodeDim

MaxTokens == {-1, 0, 1, 255, 256, 300}

P4Bytes == {0, 85, 170, 255}

HasMaxLine(m) == m \in {"P2", "P3", "P5", "P6"}

IsAscii(m) == m \in {"P1", "P2", "P3"}

\* The number of tokens (or bytes) of one row of a w pixel wide body.
RowSamples(m, w) ==
    LET cols == Max(w, 0)
    IN  CASE m \in {"P1", "P2", "P5"} -> cols
          [] m \in {"P3", "P6"} -> 3 * cols
          [] m = "P4" -> (cols + 7) \div 8
          [] OTHER -> 0

BodySamples(m, w, h) == RowSamples(m, w) * Max(h, 0)

\* An ASCII body of n tokens "1", RowSamples to a line, every line ended.
AsciiBody(m, w, h, n) ==
    Concat([y \in 1..Max(h, 0) |->
        Concat([k \in 1..Max(0, Min(RowSamples(m, w), n - (y - 1) * RowSamples(m, w))) |->
                   <<Digit0 + 1, SP>>]) \o <<LF>>])

\* The body every sample of which is 1 (every bit, for P4), cut samples short.
PlainBody(m, w, h, cut) ==
    LET n == BodySamples(m, w, h) - cut
    IN  IF IsAscii(m) THEN AsciiBody(m, w, h, n)
        ELSE [k \in 1..n |-> IF m = "P4" THEN 255 ELSE 1]

StreamOf(d) ==
    MagicBytes(d.magic) \o <<LF>> \o DimLine(d.w, d.h)
        \o (IF HasMaxLine(d.magic) THEN Itoa(d.maxv) \o <<LF>> ELSE <<>>)
        \o d.body

\* Streams of every magic number with small, zero and negative sizes, max
\* value tokens in and out of range, and a body complete or cut short.
HeaderStreams ==
    {[op |-> "stream", magic |-> m, w |-> w, h |-> h, maxv |-> mx, cut |-> cut,
      body |-> PlainBody(m, w, h, cut)] :
        m \in Magics, w \in DimTokens, h \in DimTokens, mx \in MaxTokens, cut \in 0..MaxCut}

\* P4 streams with arbitrary body bytes, complete or cut short.
P4Streams ==
    UNION {{[op |-> "stream", magic |-> "P4", w |-> wh[1], h |-> wh[2], maxv |-> 255,
             cut |-> cut, body |-> SubSeq(b, 1, Len(b) - cut)] :
               b \in [1..BodySamples("P4", wh[1], wh[2]) -> P4Bytes], cut \in 0..MaxCut} :
              wh \in (1..MaxP4W) \X (1..MaxP4H)}

InitDecode ==
    /\ impl \in PBMImpls \cup PGMImpls \cup PPMImpls
    /\ kind = KindOf(impl)
    /\ data = <<>>
    /\ width = 0
    /\ height = 0
    /\ magicNumber = ""
    /\ max = 0
    /\ status = "ok"
    /\ last \in {d \in HeaderStreams \cup (IF kind = "PBM" THEN P4Streams ELSE {}) :
                    /\ d.cut <= BodySamples(d.magic, d.w, d.h)
                    /\ HasMaxLine(d.magic) \/ d.maxv = 255}
    /\ file = StreamOf(last)

\* img, err = Read(filename) on the stream.
ReadStream ==
    /\ status = "ok"
    /\ last.op = "stream"
    /\ ReadInto(ReadOf(impl, file), last)
    /\ UNCHANGED <<kind, impl, file>>

NextDecode == ReadStream

SpecDecode == InitDecode /\ [][NextDecode]_vars

\* The magic numbers the Read function of a kind accepts.
Supported(k) ==
    CASE k = "PBM" -> {"P1", "P4"}
      [] k = "PGM" -> {"P2", "P5"}
      [] k = "PPM" -> {"P3", "P6"}

\* The stream read has a magic number its reader supports, positive sizes
\* and a max value token in 1..255.
WellFormedHeader ==
    /\ last.input.magic \in Supported(kind)
    /\ last.input.w > 0
    /\ last.input.h > 0
    /\ last.input.maxv \in 1..255

\* The call returned no image and a non-nil error.
Rejected == status = "ok" /\ last.nil /\ last.err

\* C6: ReadPBM on a complete P4 body takes ceil(width/8) bytes for every row
\* and sets pixel (x, y) iff bit 7 - x mod 8 of byte x div 8 of row y is 1;
\* the bits at positions >= width of a row's last byte reach no pixel.
C6_ReadP4Unpacking ==
    (/\ last.op = "Read"
     /\ kind = "PBM"
     /\ last.input.magic = "P4"
     /\ last.input.cut = 0
     /\ last.input.w > 0
     /\ last.input.h > 0) =>
        LET perRow == (last.input.w + 7) \div 8
        IN  /\ status = "ok"
            /\ ~last.nil
            /\ ~last.err
            /\ width = last.input.w
            /\ height = last.input.h
            /\ Len(data) = height
            /\ \A y \in 0..(height - 1) :
                   /\ Len(data[y + 1]) = width
                   /\ \A x \in 0..(width - 1) :
                          data[y + 1][x + 1] =
                              (BitOf(last.input.body[y * perRow + (x \div 8) + 1],
                                     7 - (x % 8)) = 1)

\* A P4 stream of width 9 and height 2 whose padding bits are set in the
\* first row has been read.
C6_Witness ==
    /\ last.op = "Read"
    /\ kind = "PBM"
    /\ last.input.magic = "P4"
    /\ last.input.cut = 0
    /\ last.input.w = 9
    /\ last.input.h = 2
    /\ last.input.body = <<170, 255, 85, 85>>
    /\ data = <<<<TRUE, FALSE, TRUE, FALSE, TRUE, FALSE, TRUE, FALSE, TRUE>>,
                <<FALSE, TRUE, FALSE, TRUE, FALSE, TRUE, FALSE, TRUE, FALSE>>>>

\* C7: a stream with a well-formed header whose body holds fewer samples than
\* the header promises is rejected with an error, whatever the format.
C7_TruncatedBodyRejected ==
    (last.op = "Read" /\ WellFormedHeader /\ last.input.cut > 0) => Rejected

\* C8: a stream whose magic number the reader does not support is rejected
\* with a non-nil error; nil with a nil error is never returned.
C8_UnsupportedMagicRejected ==
    (/\ last.op = "Read"
     /\ last.input.magic \notin Supported(kind)
     /\ last.input.w > 0
     /\ last.input.h > 0) => Rejected

\* C9: a header whose width or height token is zero or negative is rejected
\* with an error: no image is returned and the call does not abort.
C9_NonPositiveSizeRejected ==
    (/\ last.op = "Read"
     /\ last.input.magic \in Supported(kind)
     /\ last.input.maxv \in 1..255
     /\ (last.input.w <= 0 \/ last.input.h <= 0)) => Rejected

\* C10: ReadPGM and ReadPPM reject a max value token above 255 or not
\* positive, and the max of a returned image is the token itself.
C10_MaxValueInRange ==
    (/\ last.op = "Read"
     /\ kind \in {"PGM", "PPM"}
     /\ last.input.magic \in Supported(kind)
     /\ last.input.w > 0
     /\ last.input.h > 0
     /\ last.input.cut = 0) =>
        /\ (last.input.maxv > 255 \/ last.input.maxv <= 0) => Rejected
        /\ ~last.nil => max = last.input.maxv

-----------------------------------------------------------------------------
(* Comment lines.  A well-formed stream is read with a number of lines that  *)
(* begin with '#' between its magic number line and its dimension line, and *)
(* without them.                                                            *)

\* The largest number of comment lines put into a stream.
MaxComments == 2

\* "# c\n"
CommentLine == <<Hash, SP, 99, LF>>

\* The stream d with d.comments comment lines after the magic number line.
CommentedStreamOf(d) ==
    MagicBytes(d.magic) \o <<LF>>
        \o Concat([k \in 1..d.comments |-> CommentLine])
        \o DimLine(d.w, d.h)
        \o (IF HasMaxLine(d.magic) THEN Itoa(d.maxv) \o <<LF>> ELSE <<>>)
        \o d.body

InitComment ==
    /\ impl \in PBMImpls \cup PGMImpls \cup PPMImpls
    /\ kind = KindOf(impl)
    /\ data = <<>>
    /\ width = 0
    /\ height = 0
    /\ magicNumber = ""
    /\ max = 0
    /\ status = "ok"
    /\ \E m \in Supported(kind), w \in 1..MaxDecodeDim, h \in 1..MaxDecodeDim,
          n \in 0..MaxComments :
           last = [op |-> "stream", magic |-> m, w |-> w, h |-> h, maxv |-> 255,
                   cut |-> 0, body |-> PlainBody(m, w, h, 0), comments |-> n]
    /\ file = CommentedStreamOf(last)

\* img, err = Read(filename) on the stream with its comment lines; plain is
\* what the same Read function returns for the stream without them.
ReadCommented ==
    /\ status = "ok"
    /\ last.op = "stream"
    /\ ReadInto(ReadOf(impl, file),
                [stream |-> last, plain |-> ReadOf(impl, StreamOf(last))])
    /\ UNCHANGED <<kind, impl, file>>

NextComment == ReadCommented

SpecComment == InitComment /\ [][NextComment]_vars

\* C11: a stream with lines beginning with '#' between the magic number line
\* and the dimensions is read as the same stream without those lines: the
\* same image, or the same refusal.
C11_CommentsSkipped ==
    (last.op = "Read") =>
        /\ status = "ok"
        /\ last.nil = last.input.plain.nil
        /\ last.err = last.input.plain.err
        /\ ~last.nil => Snapshot = last.input.plain.img

-----------------------------------------------------------------------------
(* The operations on an image.  Each takes the image as a record of its     *)
(* fields and gives the image afterwards.                                   *)

PBMInvert(img) ==
    [img EXCEPT !.data = [y \in 1..Len(img.data) |->
                             [x \in 1..Len(img.data[y]) |-> ~img.data[y][x]]]]

\* pgm.max - pgm.data[i][j] on uint8 (src/pgm.go and src/pbm.go:376).
PGMInvert(img) ==
    [img EXCEPT !.data = [y \in 1..img.height |->
                             [x \in 1..img.width |-> Uint8(img.max - img.data[y][x])]]]

\* PPMInvert with a difference below 0 kept at 0.
PixelInvertFloor(img) ==
    [img EXCEPT !.data = [y \in 1..img.height |-> [x \in 1..img.width |->
                             Pixel(Max(0, img.max - img.data[y][x].R),
                                   Max(0, img.max - img.data[y][x].G),
                                   Max(0, img.max - img.data[y][x].B))]]]

\* uint8(ppm.max) - component on uint8 (src/ppm.go and part_002).
PPMInvert(img) ==
    [img EXCEPT !.data = [y \in 1..img.height |-> [x \in 1..img.width |->
                             Pixel(Uint8(img.max - img.data[y][x].R),
                                   Uint8(img.max - img.data[y][x].G),
                                   Uint8(img.max - img.data[y][x].B))]]]

InvertOf(i, img) ==
    CASE i \in PBMImpls -> PBMInvert(img)
      [] i \in PGMImpls -> PGMInvert(img)
      [] i \in PPMImpls -> PPMInvert(img)

\* Rotate90CW with the rows of the result taken in the opposite order.
Rotate90Mirrored(img) ==
    [img EXCEPT !.data = [r \in 1..img.width |-> [c \in 1..img.height |->
                             img.data[c][r]]],
                !.width = img.height,
                !.height = img.width]

\* Rotate90CW with the loop over the source rows started at row 1: the last
\* column of the result keeps the zero value make gave it.
Rotate90OneRowShort(img) ==
    [img EXCEPT !.data = [r \in 1..img.width |-> [c \in 1..img.height |->
                             IF c = img.height THEN ZeroSample(kind)
                             ELSE img.data[img.height - c + 1][r]]],
                !.width = img.height,
                !.height = img.width]

\* newData[j][height-i-1] = data[i][j]; the same loop in all four files.
\* Rotate90CW with the width and height fields left as they were.
Rotate90KeepSize(img) ==
    [img EXCEPT !.data = [r \in 1..img.width |-> [c \in 1..img.height |->
                             img.data[img.height - c + 1][r]]]]

Rotate90(img) ==
    [img EXCEPT !.data = [r \in 1..img.width |-> [c \in 1..img.height |->
                             img.data[img.height - c + 1][r]]],
                !.width = img.height,
                !.height = img.width]

\* uint8(q) for a float q >= 0 with integer part n: n when it fits; above 255
\* the conversion is implementation-dependent, the low 8 bits on some
\* builds and the largest value on others.
FloatToUint8(n, build) ==
    IF n <= 255 THEN n ELSE IF build = "wrap" THEN n % 256 ELSE 255

\* The conversion to uint8 of c * maxValue / max computed on float64.  With
\* max = 0 the quotient is NaN for c = 0 and +Inf otherwise; the conversion
\* of either is left to the build: 0, or 255 for +Inf where it saturates.
ScaleSample(c, maxValue, oldMax, build) ==
    IF oldMax = 0
    THEN IF c = 0 \/ build = "wrap" THEN 0 ELSE 255
    ELSE FloatToUint8((c * maxValue) \div oldMax, build)

\* src/pgm.go:238-253.  float64(v) * (float64(maxValue) / float64(max)),
\* truncated.  For the max values tried (15 and 255) the float product has
\* the integer part of v*maxValue/max for every v in 0..255.
PGMSetMaxValue(img, maxValue, build) ==
    IF maxValue <= 0 THEN [img |-> img, panic |-> TRUE]
    ELSE [img |-> [img EXCEPT
                      !.data = [y \in 1..img.height |-> [x \in 1..img.width |->
                                   ScaleSample(img.data[y][x], maxValue, img.max, build)]],
                      !.max = maxValue],
          panic |-> FALSE]

\* src/pbm.go:405-407.
PGM2SetMaxValue(img, maxValue, build) ==
    [img |-> [img EXCEPT !.max = maxValue], panic |-> FALSE]

\* src/ppm.go:212-222.  float64(c) * float64(maxValue) / float64(max),
\* truncated: the integer part of c*maxValue/max.
PPMSetMaxValue(img, maxValue, build) ==
    LET scaled(c) == ScaleSample(c, maxValue, img.max, build)
    IN  [img |-> [img EXCEPT
                     !.data = [y \in 1..img.height |-> [x \in 1..img.width |->
                                  Pixel(scaled(img.data[y][x].R),
                                        scaled(img.data[y][x].G),
                                        scaled(img.data[y][x].B))]],
                     !.max = maxValue],
         panic |-> FALSE]

\* part_002:215-217.
PPM2SetMaxValue(img, maxValue, build) ==
    [img |-> [img EXCEPT !.max = maxValue], panic |-> FALSE]

SetMaxValueOf(i, img, maxValue, build) ==
    CASE i = "pgm.go" -> PGMSetMaxValue(img, maxValue, build)
      [] i = "pbm.go/PGM" -> PGM2SetMaxValue(img, maxValue, build)
      [] i = "ppm.go" -> PPMSetMaxValue(img, maxValue, build)
      [] i = "part_002" -> PPM2SetMaxValue(img, maxValue, build)

\* The bitmap ToPBM returns: the pixels, the size of the source, P1.
Bitmap(d, img) ==
    [data |-> d, width |-> img.width, height |-> img.height,
     magicNumber |-> "P1", max |-> NoMax]

\* src/pgm.go:274-288: data[y][x] < uint8(max/2).
PGMToPBM(img, build) ==
    Bitmap([y \in 1..img.height |-> [x \in 1..img.width |->
               img.data[y][x] < Uint8(img.max \div 2)]], img)

\* src/pbm.go:428-444: data[i][j] > max/2.
PGM2ToPBM(img, build) ==
    Bitmap([y \in 1..img.height |-> [x \in 1..img.width |->
               img.data[y][x] > img.max \div 2]], img)

\* src/ppm.go:265-287: (R + G + B) / 3 < uint8(max/2).
PPMToPBM(img, build) ==
    Bitmap([y \in 1..img.height |-> [x \in 1..img.width |->
               (img.data[y][x].R + img.data[y][x].G + img.data[y][x].B) \div 3
                   < Uint8(img.max \div 2)]], img)

\* uint8(0.2126*float32(R) + 0.7152*float32(G) + 0.0722*float32(B)): the
\* integer part of the sum; where the exact sum is an integer the float32
\* sum may fall just short of it, depending on how the build rounds.
Luminosity(px, build) ==
    LET n == 2126 * px.R + 7152 * px.G + 722 * px.B
    IN  IF n % 10000 = 0 /\ n > 0 /\ build = "short"
        THEN (n \div 10000) - 1
        ELSE n \div 10000

\* part_002:257-275: the luminosity > 127.
PPM2ToPBM(img, build) ==
    Bitmap([y \in 1..img.height |-> [x \in 1..img.width |->
               Luminosity(img.data[y][x], build) > 127]], img)

ToPBMOf(i, img, build) ==
    CASE i = "pgm.go" -> PGMToPBM(img, build)
      [] i = "pbm.go/PGM" -> PGM2ToPBM(img, build)
      [] i = "ppm.go" -> PPMToPBM(img, build)
      [] i = "part_002" -> PPM2ToPBM(img, build)

-----------------------------------------------------------------------------
(* Calls on an image: Invert, Rotate90CW, SetMagicNumber, SetMaxValue,      *)
(* ToPBM, then Save.  last holds the latest call, the number n of times it  *)
(* has been made in a row, and orig, the image before the first of them.    *)

\* The most calls made on an image before it is saved.
MaxCalls == 4

\* A call other than the latest one is made only while fewer than MaxMixed
\* calls have been made.
MaxMixed == 2

\* Every image of at most MixCells pixels over the palette is tried.
MixCells == 2

\* The largest width and height of the images whose pixels run through the
\* palette in row order.
MaxOpW == 4
MaxOpH == 2

\* Four samples of each kind; 0, 127, 128 and 255 are the gray ones.
OpsPalette(k) ==
    CASE k = "PBM" -> <<FALSE, TRUE, TRUE, FALSE>>
      [] k = "PGM" -> <<0, 127, 128, 255>>
      [] k = "PPM" -> <<Pixel(0, 0, 0), Pixel(127, 127, 127),
                         Pixel(128, 10, 255), Pixel(255, 255, 255)>>

OpsImages(k) ==
    UNION {{[width |-> wh[1], data |-> d] :
               d \in [1..wh[2] -> [1..wh[1] -> {OpsPalette(k)[j] : j \in 1..4}]]} :
              wh \in Shapes(MixCells)}
        \cup {[width |-> w,
               data |-> [y \in 1..h |-> [x \in 1..w |->
                            OpsPalette(k)[(((y - 1) * (w + 1) + (x - 1) + shift) % 4) + 1]]]] :
                 w \in 1..MaxOpW, h \in 1..MaxOpH, shift \in 0..3}

InitOps ==
    /\ impl \in PBMImpls \cup PGMImpls \cup PPMImpls
    /\ kind = KindOf(impl)
    /\ magicNumber \in Supported(kind)
    /\ max \in (IF kind = "PBM" THEN {NoMax} ELSE CodecMaxima)
    /\ \E img \in OpsImages(kind) :
           /\ data = img.data
           /\ width = img.width
           /\ height = Len(img.data)
    /\ file = <<>>
    /\ status = "ok"
    /\ last = [op |-> "new", n |-> 0, calls |-> 0]

\* The call op may be made now.
MayCall(op) ==
    /\ status = "ok"
    /\ last.op # "Save"
    /\ last.calls < MaxCalls
    /\ last.op \in {"new", op} \/ last.calls < MaxMixed

\* The object is img after the call op(arg), which returned ret.
Called(op, arg, img, ret) ==
    /\ data' = img.data
    /\ width' = img.width
    /\ height' = img.height
    /\ magicNumber' = img.magicNumber
    /\ max' = img.max
    /\ last' = [op |-> op, arg |-> arg, ret |-> ret, calls |-> last.calls + 1,
                n |-> IF last.op = op THEN last.n + 1 ELSE 1,
                orig |-> IF last.op = op THEN last.orig ELSE Snapshot]
    /\ UNCHANGED <<kind, impl, file, status>>

Invert ==
    /\ MayCall("Invert")
    /\ Called("Invert", 0, InvertOf(impl, Snapshot), 0)

Rotate90CW ==
    /\ MayCall("Rotate90CW")
    /\ kind # "PBM"
    /\ Called("Rotate90CW", 0, Rotate90(Snapshot), 0)

SetMagicNumber(m) ==
    /\ MayCall("SetMagicNumber")
    /\ Called("SetMagicNumber", m, [Snapshot EXCEPT !.magicNumber = m], 0)

SetMaxValue(maxValue, build) ==
    /\ MayCall("SetMaxValue")
    /\ kind # "PBM"
    /\ Called("SetMaxValue", maxValue, SetMaxValueOf(impl, Snapshot, maxValue, build).img, 0)

ToPBM(build) ==
    /\ MayCall("ToPBM")
    /\ kind # "PBM"
    /\ Called("ToPBM", 0, Snapshot, ToPBMOf(impl, Snapshot, build))

\* img.Save(filename) after the calls made so far.
SaveCurrent ==
    /\ status = "ok"
    /\ last.op # "Save"
    /\ file' = SaveOf(impl, Snapshot).file
    /\ last' = [op |-> "Save", arg |-> 0, err |-> SaveOf(impl, Snapshot).err,
                calls |-> last.calls + 1, n |-> 1, orig |-> Snapshot]
    /\ UNCHANGED <<kind, impl, data, width, height, magicNumber, max, status>>

NextOps ==
    \/ Invert
    \/ Rotate90CW
    \/ \E m \in Supported(kind) : SetMagicNumber(m)
    \/ \E maxValue \in CodecMaxima, build \in {"wrap", "saturate"} :
           SetMaxValue(maxValue, build)
    \/ \E build \in {"exact", "short"} : ToPBM(build)
    \/ SaveCurrent

SpecOps == InitOps /\ [][NextOps]_vars

\* The header of the object as it is now: magic number, width and height,
\* and the max value for a PGM or a PPM.
CurrentHeader ==
    MagicBytes(magicNumber) \o <<LF>> \o DimLine(width, height)
        \o (IF HasMaxLine(magicNumber) THEN Itoa(max) \o <<LF>> ELSE <<>>)

\* What was written after the bytes of the header.
BodyAfterHeader == SubSeq(file, Len(CurrentHeader) + 1, Len(file))

\* The number of samples of a pixel.
Channels == IF kind = "PPM" THEN 3 ELSE 1

\* C12: after any calls of SetMagicNumber, SetMaxValue, Rotate90CW, Invert,
\* Save writes a header equal to the current magic number, width, height and
\* max value, then the body in the encoding of the current magic number:
\* decimal tokens for P1, P2, P3, raw bytes for P4, P5, P6, exactly
\* width*height bytes for P5 and width*height*3 bytes for P6.
C12_SaveReflectsCurrentFields ==
    (last.op = "Save") =>
        /\ ~last.err
        /\ Len(file) >= Len(CurrentHeader)
        /\ SubSeq(file, 1, Len(CurrentHeader)) = CurrentHeader
        /\ IF IsAscii(magicNumber)
           THEN /\ \A k \in 1..Len(BodyAfterHeader) :
                       IsDigit(BodyAfterHeader[k]) \/ IsSpace(BodyAfterHeader[k])
                /\ Len(Fields(BodyAfterHeader)) = width * height * Channels
           ELSE IF magicNumber = "P4"
           THEN Len(BodyAfterHeader) = ((width + 7) \div 8) * height
           ELSE Len(BodyAfterHeader) = width * height * Channels

-----------------------------------------------------------------------------
\* The run DrawLine(last.p2, last.p1, last.c) ends in on the image the
\* recorded DrawLine(last.p1, last.p2, last.c) was called on.
ReverseLine ==
    DrawLineOf(impl, [data |-> last.pre.data, panic |-> FALSE], width, height,
               last.p2, last.p1, last.c)

\* C13: for all integer endpoints p1, p2 and any starting image,
\* DrawLine(p1, p2, c) and DrawLine(p2, p1, c) applied to equal images paint
\* exactly the same set of pixels: the resulting images are equal.
C13_DrawLineSymmetric ==
    (last.op = "DrawLine") =>
        /\ ReverseLine.data = data
        /\ ReverseLine.panic = (status = "panic")

\* A line drawn from right to left, one row up or down, between two pixels
\* of the image that did not have the colour and now have it.
C13_Witness ==
    /\ last.op = "DrawLine"
    /\ status = "ok"
    /\ last.p1.X - last.p2.X = 2
    /\ Abs(last.p1.Y - last.p2.Y) = 1
    /\ InBounds(last.p1.X, last.p1.Y, width, height)
    /\ InBounds(last.p2.X, last.p2.Y, width, height)
    /\ last.pre.data[last.p1.Y + 1][last.p1.X + 1] # last.c
    /\ last.pre.data[last.p2.Y + 1][last.p2.X + 1] # last.c
    /\ data[last.p1.Y + 1][last.p1.X + 1] = last.c
    /\ data[last.p2.Y + 1][last.p2.X + 1] = last.c

-----------------------------------------------------------------------------
\* C14: for PBM, PGM and PPM, Invert applied twice gives an image equal to
\* the original in every sample, in its dimensions, magic number and max
\* value, also for an image that holds a sample above the max value (the
\* subtraction wraps around on 8 bits both times).
C14_InvertTwice ==
    (last.op = "Invert" /\ last.n = 2) => Snapshot = last.orig

\* A PPM with max value 15 and a component above 15 has been inverted twice.
C14_Witness ==
    /\ last.op = "Invert"
    /\ last.n = 2
    /\ kind = "PPM"
    /\ max = 15
    /\ \E y \in 1..height, x \in 1..width : data[y][x].G > max /\ data[y][x].B > max

\* C15: for PGM and PPM images of any width and height, square or not,
\* Rotate90CW applied four times gives an image with the original width and
\* height and the original sample at every (x, y).
C15_RotateFourTimes ==
    (last.op = "Rotate90CW" /\ last.n = 4) =>
        /\ width = last.orig.width
        /\ height = last.orig.height
        /\ \A x \in 0..(width - 1), y \in 0..(height - 1) :
               Load(data, x, y) = Load(last.orig.data, x, y)

\* An image of 4 by 2 samples, not all of them alike, has been rotated four times.
C15_Witness ==
    /\ last.op = "Rotate90CW"
    /\ last.n = 4
    /\ last.orig.width = 4
    /\ last.orig.height = 2
    /\ \E x \in 0..3 : Load(last.orig.data, x, 0) # Load(last.orig.data, x, 1)
    /\ Load(last.orig.data, 0, 0) # Load(last.orig.data, 1, 0)

\* C16: Rotate90CW on an image of width w and height h gives an image of
\* width h and height w in which the sample at (h-1-y, x) is the sample that
\* was at (x, y), for all 0 <= x < w and 0 <= y < h; the magic number and the
\* max value are unchanged.
C16_RotateMapsPixels ==
    (last.op = "Rotate90CW" /\ last.n = 1) =>
        LET w == last.orig.width
            h == last.orig.height
        IN  /\ width = h
            /\ height = w
            /\ Len(data) = w
            /\ \A y \in 1..Len(data) : Len(data[y]) = h
            /\ \A x \in 0..(w - 1), y \in 0..(h - 1) :
                   Load(data, h - 1 - y, x) = Load(last.orig.data, x, y)
            /\ magicNumber = last.orig.magicNumber
            /\ max = last.orig.max

\* An image of 4 by 2 samples whose corners differ has been rotated once.
C16_Witness ==
    /\ last.op = "Rotate90CW"
    /\ last.n = 1
    /\ last.orig.width = 4
    /\ last.orig.height = 2
    /\ Load(last.orig.data, 0, 0) # Load(last.orig.data, 3, 0)
    /\ Load(last.orig.data, 0, 0) # Load(last.orig.data, 0, 1)
    /\ Load(last.orig.data, 3, 1) # Load(last.orig.data, 3, 0)

-----------------------------------------------------------------------------
\* C17: PGM.ToPBM and PPM.ToPBM set a bitmap pixel to true exactly when the
\* source value (the gray value; for a PPM the gray level derived from R, G,
\* B, which for a pixel with R = G = B is that common value) is at or above
\* maxValue/2 computed with integer division, and to false otherwise.
C17_ToPBMThreshold ==
    (last.op = "ToPBM") =>
        \A y \in 1..height, x \in 1..width :
            IF kind = "PGM"
            THEN last.ret.data[y][x] = (data[y][x] >= max \div 2)
            ELSE (data[y][x].R = data[y][x].G /\ data[y][x].G = data[y][x].B)
                     => last.ret.data[y][x] = (data[y][x].R >= max \div 2)

\* C18: PGM.ToPBM on a graymap with max value 255 and the samples
\* 0, 127, 128, 255 gives the bitmap samples false, false, true, true, with
\* the width and height of the source.
C18_ToPBMExample ==
    (last.op = "ToPBM" /\ kind = "PGM" /\ max = 255 /\ data = <<<<0, 127, 128, 255>>>>) =>
        /\ last.ret.data = <<<<FALSE, FALSE, TRUE, TRUE>>>>
        /\ last.ret.width = width
        /\ last.ret.height = height

-----------------------------------------------------------------------------
\* C19: SetMaxValue(newMax) on a PGM or PPM image with old max value
\* oldMax > 0 and newMax > 0 replaces every channel value v by
\* v*newMax/oldMax rounded to the nearest integer and sets the max value to
\* newMax; width, height and magic number are unchanged.  (Stated for the
\* values v <= oldMax, whose rounded result fits a sample; scaled(v) is
\* v*newMax/oldMax rounded to the nearest integer.)
C19_SetMaxValueRescales ==
    (last.op = "SetMaxValue" /\ last.n = 1 /\ last.orig.max > 0 /\ last.arg > 0) =>
        /\ max = last.arg
        /\ width = last.orig.width
        /\ height = last.orig.height
        /\ magicNumber = last.orig.magicNumber
        /\ \A y \in 1..height, x \in 1..width :
               LET old == last.orig.data[y][x]
                   scaled(v) == (2 * v * last.arg + last.orig.max) \div (2 * last.orig.max)
               IN  IF kind = "PGM"
                   THEN old <= last.orig.max => data[y][x] = scaled(old)
                   ELSE /\ old.R <= last.orig.max => data[y][x].R = scaled(old.R)
                        /\ old.G <= last.orig.max => data[y][x].G = scaled(old.G)
                        /\ old.B <= last.orig.max => data[y][x].B = scaled(old.B)

-----------------------------------------------------------------------------
\* C20: DrawFilledRectangle(origin, width, height, c) sets to c exactly the
\* pixels (x, y) of the image with origin.X <= x <= origin.X + width and
\* origin.Y <= y <= origin.Y + height, both far edges included, and leaves
\* every other pixel as it was.
C20_FilledRectangleClosed ==
    (last.op = "DrawFilledRectangle") =>
        /\ Rectangular
        /\ \A x \in 0..(width - 1), y \in 0..(height - 1) :
               Load(data, x, y) =
                   IF /\ last.p1.X <= x
                      /\ x <= last.p1.X + last.w
                      /\ last.p1.Y <= y
                      /\ y <= last.p1.Y + last.h
                   THEN last.c
                   ELSE Load(last.pre.data, x, y)

-----------------------------------------------------------------------------
(* Circles, triangles and polygons.                                          *)

\* The pairs of a LoopPairs list as points (first, second).
AsPoints(pairs) == [k \in 1..Len(pairs) |-> Point(pairs[k][1], pairs[k][2])]

\* part_002's DrawCircle: every offset (x, y) of the square -radius..radius
\* with x*x + y*y <= radius*radius is set, through the unchecked Set.
PPM2DrawCircle(run, w, h, center, radius, c) ==
    LET offsets == SelectSeq(LoopPairs(0 - radius, radius, 0 - radius, radius),
                             LAMBDA q : q[1] * q[1] + q[2] * q[2] <= radius * radius)
    IN  PlotAll("part_002", run, w, h,
                [k \in 1..Len(offsets) |->
                    Point(center.X + offsets[k][1], center.Y + offsets[k][2])], c)

\* ppm.go's DrawCircle: x runs over 0..height-1 and y over 0..width-1; a
\* point is set when |distance - radius| < 1 and distance < radius, which
\* for the square d2 of the distance is (radius-1)^2 < d2 < radius^2 with
\* radius >= 1; then the four points at radius-1 from the center along the
\* axes are set.
PPMDrawCircle(run, w, h, center, radius, c) ==
    LET d2(q) == (q[1] - center.X) * (q[1] - center.X)
                     + (q[2] - center.Y) * (q[2] - center.Y)
        ring == SelectSeq(LoopPairs(0, h - 1, 0, w - 1),
                          LAMBDA q : /\ radius >= 1
                                     /\ (radius - 1) * (radius - 1) < d2(q)
                                     /\ d2(q) < radius * radius)
        extra == <<Point(center.X - (radius - 1), center.Y),
                   Point(center.X + (radius - 1), center.Y),
                   Point(center.X, center.Y + (radius - 1)),
                   Point(center.X, center.Y - (radius - 1))>>
    IN  PlotAll("ppm.go", run, w, h, AsPoints(ring) \o extra, c)

DrawCircleOf(i, run, w, h, center, radius, c) ==
    IF i = "ppm.go" THEN PPMDrawCircle(run, w, h, center, radius, c)
    ELSE PPM2DrawCircle(run, w, h, center, radius, c)

\* isInsideTriangle: area2 is twice the area, ns and nt are s and t times
\* area2.  The code divides in float64; on coordinates of absolute value up
\* to 5 every comparison it makes has the outcome of the exact one.
isInsideTriangle(p, p1, p2, p3) ==
    LET area2 == (0 - p2.Y) * p3.X + p1.Y * ((0 - p2.X) + p3.X)
                     + p1.X * (p2.Y - p3.Y) + p2.X * p3.Y
        ns == p1.Y * p3.X - p1.X * p3.Y + (p3.Y - p1.Y) * p.X + (p1.X - p3.X) * p.Y
        nt == p1.X * p2.Y - p1.Y * p2.X + (p1.Y - p2.Y) * p.X + (p2.X - p1.X) * p.Y
    IN  /\ area2 # 0
        /\ ns * area2 >= 0
        /\ nt * area2 >= 0
        /\ IF area2 > 0 THEN ns + nt <= area2 ELSE ns + nt >= area2

\* DrawFilledTriangle, the same in ppm.go and part_002 but for the Set it
\* calls: the points of the bounding box, column by column, that are inside.
DrawFilledTriangleOf(i, run, w, h, p1, p2, p3, c) ==
    LET minX == Min(Min(p1.X, p2.X), p3.X)
        minY == Min(Min(p1.Y, p2.Y), p3.Y)
        maxX == Max(Max(p1.X, p2.X), p3.X)
        maxY == Max(Max(p1.Y, p2.Y), p3.Y)
        box == AsPoints(LoopPairs(minX, maxX, minY, maxY))
    IN  PlotAll(i, run, w, h,
                SelectSeq(box, LAMBDA q : isInsideTriangle(q, p1, p2, p3)), c)

\* DrawLine from points[k] to points[k + 1] for k = from .. Len(points) - 1.
RECURSIVE LineChain(_, _, _, _, _, _, _)
LineChain(i, run, w, h, points, from, c) ==
    IF from >= Len(points) THEN run
    ELSE LineChain(i, DrawLineOf(i, run, w, h, points[from], points[from + 1], c),
                   w, h, points, from + 1, c)

\* ppm.go's DrawPolygon: nothing for fewer than 3 points.
PPMDrawPolygon(run, w, h, points, c) ==
    IF Len(points) < 3 THEN run
    ELSE DrawLineOf("ppm.go", LineChain("ppm.go", run, w, h, points, 1, c),
                    w, h, points[Len(points)], points[1], c)

\* part_002's DrawPolygon: points[len(points)-1] panics for an empty list.
PPM2DrawPolygon(run, w, h, points, c) ==
    IF Len(points) = 0 THEN [data |-> run.data, panic |-> TRUE]
    ELSE DrawLineOf("part_002", LineChain("part_002", run, w, h, points, 1, c),
                    w, h, points[Len(points)], points[1], c)

DrawPolygonOf(i, run, w, h, points, c) ==
    IF i = "ppm.go" THEN PPMDrawPolygon(run, w, h, points, c)
    ELSE PPM2DrawPolygon(run, w, h, points, c)

\* xs with v put before its first element greater than v.
RECURSIVE Insert(_, _)
Insert(xs, v) ==
    IF xs = <<>> THEN <<v>>
    ELSE IF v <= Head(xs) THEN <<v>> \o xs
    ELSE <<Head(xs)>> \o Insert(Tail(xs), v)

\* sort.Ints
RECURSIVE SortInts(_)
SortInts(xs) == IF xs = <<>> THEN <<>> ELSE Insert(SortInts(Tail(xs)), Head(xs))

\* Crosses with every edge that is not horizontal counted on each row it
\* meets, the row of its upper end included.
CrossesTouching(a, b, y) ==
    a.Y # b.Y /\ ((a.Y <= y /\ b.Y >= y) \/ (b.Y <= y /\ a.Y >= y))

\* Whether the edge from a to b is counted on row y.
Crosses(a, b, y) == (a.Y < y /\ b.Y >= y) \/ (b.Y < y /\ a.Y >= y)

\* int(float64(a.X) + float64(y-a.Y)/float64(b.Y-a.Y)*float64(b.X-a.X)): the
\* exact value truncated toward zero (on the edges of the polygons tried the
\* float64 value truncates to the same integer, also where the build fuses
\* the multiplication and the addition).
CrossingX(a, b, y) ==
    GoQuo(a.X * (b.Y - a.Y) + (y - a.Y) * (b.X - a.X), b.Y - a.Y)

\* The edge from points[i] to points[i % n + 1], in the code's indices from
\* points[i-1] to points[i % n].
NextVertex(points, i) == points[(i % Len(points)) + 1]

\* intersections before the sort: the crossing of every counted edge on row
\* y, in the order of the edges.
Crossings(points, y) ==
    LET edges == SelectSeq([i \in 1..Len(points) |-> i],
                           LAMBDA i : Crosses(points[i], NextVertex(points, i), y))
    IN  [k \in 1..Len(edges) |->
            CrossingX(points[edges[k]], NextVertex(points, edges[k]), y)]

\* The loop over the pairs of xs from index i (counted from 0) on row y:
\* reading xs[i+1] past the end panics, otherwise xs[i] .. xs[i+1] are set.
RECURSIVE FillPairs(_, _, _, _, _, _, _)
FillPairs(run, w, h, xs, i, y, c) ==
    IF run.panic \/ i >= Len(xs) THEN run
    ELSE IF i + 1 >= Len(xs) THEN [data |-> run.data, panic |-> TRUE]
    ELSE FillPairs(PlotAll("part_002", run, w, h,
                       [k \in 1..Max(0, xs[i + 2] - xs[i + 1] + 1) |->
                           Point(xs[i + 1] + k - 1, y)], c),
                   w, h, xs, i + 2, y, c)

\* The rows y .. maxY of part_002's DrawFilledPolygon.
RECURSIVE FillRows(_, _, _, _, _, _, _)
FillRows(run, w, h, points, y, maxY, c) ==
    IF run.panic \/ y > maxY THEN run
    ELSE FillRows(FillPairs(run, w, h, SortInts(Crossings(points, y)), 0, y, c),
                  w, h, points, y + 1, maxY, c)

\* The smallest (sign = 1) or the largest (sign = -1) Y of points.
ExtremeY(points, sign) ==
    CHOOSE v \in {points[k].Y : k \in 1..Len(points)} :
        \A k \in 1..Len(points) : sign * v <= sign * points[k].Y

\* part_002's DrawFilledPolygon: points[0] panics for an empty list; the
\* rows from the smallest to the largest Y of the points are filled between
\* the sorted crossings taken two by two.
PPM2DrawFilledPolygon(run, w, h, points, c) ==
    IF Len(points) = 0 THEN [data |-> run.data, panic |-> TRUE]
    ELSE FillRows(run, w, h, points, ExtremeY(points, 1), ExtremeY(points, 0 - 1), c)

\* One row of ppm.go's fill: with more than one sample equal to the colour,
\* everything between the first and the last of them becomes the colour.
FillBetweenMatches(row, c) ==
    LET positions == {j \in 1..Len(row) : row[j] = c}
    IN  IF Cardinality(positions) > 1
        THEN [j \in 1..Len(row) |->
                 IF \E a \in positions, b \in positions : a < j /\ j < b
                 THEN c ELSE row[j]]
        ELSE row

\* ppm.go's DrawFilledPolygon: the outline, then every row of the image
\* filled between its first and last sample of the colour.
PPMDrawFilledPolygon(run, w, h, points, c) ==
    LET outline == PPMDrawPolygon(run, w, h, points, c)
    IN  [data |-> [i \in 1..h |-> FillBetweenMatches(outline.data[i], c)],
         panic |-> outline.panic]

DrawFilledPolygonOf(i, run, w, h, points, c) ==
    IF i = "ppm.go" THEN PPMDrawFilledPolygon(run, w, h, points, c)
    ELSE PPM2DrawFilledPolygon(run, w, h, points, c)

-----------------------------------------------------------------------------
(* The shape specification: a PPM image, then one call of DrawCircle,        *)
(* DrawFilledTriangle, DrawPolygon or DrawFilledPolygon.                     *)

\* The width of the images the shapes are drawn on, and their largest height.
MaxCanvas == 5

\* The smaller height of these images is MaxCanvas - CanvasCut.
CanvasCut == 2

\* The largest radius tried (the smallest is -1).
MaxRadius == 4

\* Blank, or blank but for one sample of Ink in the first column, or but for
\* the two ends of the first row.
CanvasImages(w, h) ==
    {Blank(w, h, Paper), Store(Store(Blank(w, h, Paper), 0, 0, Ink), w - 1, 0, Ink)}
        \cup {Store(Blank(w, h, Paper), 0, y, Ink) : y \in 0..(h - 1)}

InitShapes ==
    /\ impl \in PPMImpls
    /\ kind = "PPM"
    /\ width = MaxCanvas
    /\ height \in {MaxCanvas, MaxCanvas - CanvasCut}
    /\ data \in CanvasImages(width, height)
    /\ magicNumber = "P3"
    /\ max = 255
    /\ file = <<>>
    /\ status = "ok"
    /\ last = [op |-> "new"]

\* The coordinates of the vertices tried: outside, the first, the middle and
\* the last column of the image.
VertexCoords == {0 - DrawMargin, 0, MaxCanvas \div 2, MaxCanvas - 1}

Vertices == {Point(x, y) : x \in VertexCoords, y \in VertexCoords}

\* A pentagon with a notch cut from the middle of its last row up to the
\* centre of the image, and a square.
Notched ==
    <<Point(0, 0), Point(MaxCanvas - 1, 0), Point(MaxCanvas - 1, MaxCanvas - 1),
      Point(MaxCanvas \div 2, MaxCanvas \div 2), Point(0, MaxCanvas - 1)>>

Square ==
    <<Point(0, 0), Point(MaxCanvas \div 2, 0),
      Point(MaxCanvas \div 2, MaxCanvas \div 2), Point(0, MaxCanvas \div 2)>>

\* The corner points polygons of up to three vertices are made of.
Corners ==
    {Point(0, 0), Point(MaxCanvas - 1, 0), Point(MaxCanvas \div 2, MaxCanvas \div 2),
     Point(0, MaxCanvas - CanvasCut - 1), Point(0 - DrawMargin, 1)}

Polygons ==
    {<<>>, Notched, Square}
        \cup {<<a>> : a \in Corners}
        \cup {<<a, b>> : a \in Corners, b \in Corners}
        \cup {<<a, b, d>> : a \in Corners, b \in Corners, d \in Corners}

DrawCircle ==
    /\ Fresh
    /\ \E center \in DrawPoints, radius \in (0 - 1)..MaxRadius :
          Drawn(DrawCircleOf(impl, StartRun, width, height, center, radius, Ink),
                [op |-> "DrawCircle", center |-> center, radius |-> radius, c |-> Ink,
                 pre |-> Snapshot])

DrawFilledTriangle ==
    /\ Fresh
    /\ \E p1 \in Vertices, p2 \in Vertices, p3 \in Vertices :
          Drawn(DrawFilledTriangleOf(impl, StartRun, width, height, p1, p2, p3, Ink),
                [op |-> "DrawFilledTriangle", p1 |-> p1, p2 |-> p2, p3 |-> p3, c |-> Ink,
                 pre |-> Snapshot])

DrawPolygon ==
    /\ Fresh
    /\ \E points \in Polygons :
          Drawn(DrawPolygonOf(impl, StartRun, width, height, points, Ink),
                [op |-> "DrawPolygon", points |-> points, c |-> Ink, pre |-> Snapshot])

DrawFilledPolygon ==
    /\ Fresh
    /\ \E points \in Polygons :
          Drawn(DrawFilledPolygonOf(impl, StartRun, width, height, points, Ink),
                [op |-> "DrawFilledPolygon", points |-> points, c |-> Ink,
                 pre |-> Snapshot])

NextShapes == DrawCircle \/ DrawFilledTriangle \/ DrawPolygon \/ DrawFilledPolygon

SpecShapes == InitShapes /\ [][NextShapes]_vars

-----------------------------------------------------------------------------
\* C21: DrawCircle(center, radius, c) paints only the boundary ring: every
\* pixel it changes has a distance d from center with |d - radius| < 1, so
\* for radius >= 2 the center and every pixel at distance <= radius - 1
\* keep their value; also on images that are not square.
C21_CircleRingOnly ==
    (last.op = "DrawCircle") =>
        \A x \in 0..(width - 1), y \in 0..(height - 1) :
            LET d2 == (x - last.center.X) * (x - last.center.X)
                          + (y - last.center.Y) * (y - last.center.Y)
                r == last.radius
            IN  Load(data, x, y) # Load(last.pre.data, x, y) =>
                    /\ r + 1 > 0
                    /\ d2 < (r + 1) * (r + 1)
                    /\ r - 1 < 0 \/ d2 > (r - 1) * (r - 1)

-----------------------------------------------------------------------------
\* Twice the signed area of the triangle of the recorded call.
LastArea2 ==
    (last.p2.X - last.p1.X) * (last.p3.Y - last.p1.Y)
        - (last.p3.X - last.p1.X) * (last.p2.Y - last.p1.Y)

\* C22: DrawFilledTriangle(p1, p2, p3, c) sets to c exactly the pixels of
\* the image whose barycentric weights satisfy s >= 0, t >= 0, s + t <= 1
\* (they all lie in the bounding box) and no other pixel; three collinear
\* vertices change no pixel; the right triangle (0,0), (4,0), (0,4) paints
\* exactly the 15 pixels with x >= 0, y >= 0 and x + y <= 4.
C22_FilledTriangle ==
    (last.op = "DrawFilledTriangle") =>
        /\ \A x \in 0..(width - 1), y \in 0..(height - 1) :
               Load(data, x, y) =
                   IF isInsideTriangle(Point(x, y), last.p1, last.p2, last.p3)
                   THEN last.c
                   ELSE Load(last.pre.data, x, y)
        /\ LastArea2 = 0 => data = last.pre.data
        /\ (/\ last.p1 = Point(0, 0)
            /\ last.p2 = Point(4, 0)
            /\ last.p3 = Point(0, 4)
            /\ height = 5
            /\ last.pre.data = Blank(width, height, Paper))
               => {q \in (0..(width - 1)) \X (0..(height - 1)) :
                       Load(data, q[1], q[2]) = last.c}
                      = {q \in (0..4) \X (0..4) : q[1] + q[2] <= 4}

-----------------------------------------------------------------------------
\* The run DrawLine(a, b, last.c) ends in on the image the recorded call was
\* made on.
LineAlone(a, b) ==
    DrawLineOf(impl, [data |-> last.pre.data, panic |-> FALSE], width, height,
               a, b, last.c)

\* C23: DrawPolygon and DrawFilledPolygon called with 0, 1 or 2 points
\* complete without failing and leave the image unchanged; with 3 or more
\* points DrawPolygon draws the line between every two consecutive points
\* and the closing line from the last point to the first.
C23_PolygonVertexCount ==
    /\ (last.op \in {"DrawPolygon", "DrawFilledPolygon"} /\ Len(last.points) < 3) =>
           /\ status = "ok"
           /\ data = last.pre.data
    /\ (last.op = "DrawPolygon" /\ Len(last.points) >= 3) =>
           /\ status = "ok"
           /\ \A k \in 1..Len(last.points) :
                  LET line == LineAlone(last.points[k], NextVertex(last.points, k))
                  IN  \A x \in 0..(width - 1), y \in 0..(height - 1) :
                          Load(line.data, x, y) # Load(last.pre.data, x, y)
                              => Load(data, x, y) = last.c

-----------------------------------------------------------------------------
\* Whether x lies between the crossings 0 and 1, or 2 and 3, and so on, of
\* the recorded polygon on row y, the crossings sorted ascending.
BetweenCrossings(x, y) ==
    LET xs == SortInts(Crossings(last.points, y))
    IN  \E i \in 1..(Len(xs) \div 2) : xs[2 * i - 1] <= x /\ x <= xs[2 * i]

\* C24: DrawFilledPolygon fills by the even-odd scanline rule: on every row
\* y the crossings of the edges are sorted ascending and exactly the pixels
\* between crossings 0 and 1, 2 and 3, and so on are painted; on the simple
\* non-convex pentagon (0,0), (4,0), (4,4), (2,2), (0,4) every interior pixel
\* is painted and no pixel of the notch below (2,2) is.
C24_EvenOddScanline ==
    (last.op = "DrawFilledPolygon" /\ Len(last.points) > 0) =>
        /\ \A x \in 0..(width - 1), y \in 0..(height - 1) :
               Load(data, x, y) =
                   IF BetweenCrossings(x, y) THEN last.c ELSE Load(last.pre.data, x, y)
        /\ (/\ last.points = <<Point(0, 0), Point(4, 0), Point(4, 4), Point(2, 2), Point(0, 4)>>
            /\ height = 5
            /\ last.pre.data = Blank(width, height, Paper))
               => /\ \A q \in {<<1, 1>>, <<2, 1>>, <<3, 1>>, <<1, 2>>, <<3, 2>>} :
                         Load(data, q[1], q[2]) = last.c
                  /\ \A q \in {<<2, 3>>, <<1, 4>>, <<2, 4>>, <<3, 4>>} :
                         Load(data, q[1], q[2]) = Paper

-----------------------------------------------------------------------------
\* The run the recorded DrawFilledPolygon ends in on a blank image of the
\* same size.
FillOnBlank ==
    DrawFilledPolygonOf(impl, [data |-> Blank(width, height, Paper), panic |-> FALSE],
                        width, height, last.points, last.c)

\* C25: the set of pixels DrawFilledPolygon(points, c) writes depends only on
\* points and the image size, never on the values the image held before: a
\* pixel it does not write on a blank image keeps its value on every image,
\* also when the image already holds pixels equal to c on the same row.
C25_FillIgnoresOldPixels ==
    (last.op = "DrawFilledPolygon") =>
        /\ FillOnBlank.panic = (status = "panic")
        /\ \A x \in 0..(width - 1), y \in 0..(height - 1) :
               Load(data, x, y) =
                   IF Load(FillOnBlank.data, x, y) = last.c
                   THEN last.c
                   ELSE Load(last.pre.data, x, y)

-----------------------------------------------------------------------------
-----------------------------------------------------------------------------
\* The rows part_002's DrawFilledPolygon visits for the recorded points.
ScannedRows == ExtremeY(last.points, 1)..ExtremeY(last.points, 0 - 1)

\* C29: in the scanline DrawFilledPolygon, for every non-empty list of
\* points and every row y between the smallest and the largest Y of the
\* points, the number of crossings collected for the row is even, so the
\* loop that reads intersections[i] and intersections[i+1] never reads past
\* the end of the list: the call fails only where a crossing or a row lies
\* outside the image.
C29_CrossingsEven ==
    (last.op = "DrawFilledPolygon" /\ impl = "part_002" /\ Len(last.points) > 0) =>
        /\ \A y \in ScannedRows : Len(Crossings(last.points, y)) % 2 = 0
        /\ (\A y \in ScannedRows :
                LET xs == Crossings(last.points, y)
                IN  \A k \in 1..Len(xs) : InBounds(xs[k], y, width, height))
               => status = "ok"

\* The notched pentagon, which has four crossings on a row, has been filled.
C29_Witness ==
    /\ last.op = "DrawFilledPolygon"
    /\ impl = "part_002"
    /\ last.points = Notched
    /\ status = "ok"
    /\ \E y \in ScannedRows : Len(Crossings(last.points, y)) = 4
    /\ data # last.pre.data

-----------------------------------------------------------------------------
\* C28: for all endpoints p1, p2 inside an image of any width and height,
\* p1 = p2 included, DrawLine(p1, p2, c) completes without failing, paints
\* both endpoints and paints exactly one pixel for each coordinate of the
\* driving axis (x when |dx| >= |dy|, else y) between the endpoints
\* inclusive; DrawLine(p, p, c) paints exactly the pixel p.
C28_LineCoversDrivingAxis ==
    (/\ last.op = "DrawLine"
     /\ InBounds(last.p1.X, last.p1.Y, width, height)
     /\ InBounds(last.p2.X, last.p2.Y, width, height)) =>
        LET alongX == Abs(last.p2.X - last.p1.X) >= Abs(last.p2.Y - last.p1.Y)
            lo == IF alongX THEN Min(last.p1.X, last.p2.X) ELSE Min(last.p1.Y, last.p2.Y)
            hi == IF alongX THEN Max(last.p1.X, last.p2.X) ELSE Max(last.p1.Y, last.p2.Y)
            pixels == (0..(width - 1)) \X (0..(height - 1))
            drive(q) == IF alongX THEN q[1] ELSE q[2]
            changed == {q \in pixels : Load(data, q[1], q[2]) # Load(last.pre.data, q[1], q[2])}
        IN  /\ status = "ok"
            /\ Load(data, last.p1.X, last.p1.Y) = last.c
            /\ Load(data, last.p2.X, last.p2.Y) = last.c
            /\ \A u \in lo..hi : \E q \in pixels :
                   drive(q) = u /\ Load(data, q[1], q[2]) = last.c
            /\ \A q \in changed : drive(q) \in lo..hi
            /\ \A q \in changed, r \in changed : drive(q) = drive(r) => q = r

-----------------------------------------------------------------------------
(* Calls on an image that Read has returned: Set, Invert, Flip, Flop,       *)
(* Rotate90CW, SetMagicNumber, SetMaxValue, the conversions and the drawing *)
(* calls, in any order.  A conversion returns a new image, which takes the  *)
(* place of the object here.                                                *)

\* Flip: in every row, the samples x and width-x-1 are exchanged for
\* x < width/2 (src/pbm.go:190-196 and 384-390, src/pgm.go:217-223,
\* src/ppm.go:188-196, part_002:194-200).
Flip(img) ==
    LET half == IF img.width > 0 THEN img.width \div 2 ELSE 0
    IN  [img EXCEPT !.data = [y \in 1..Len(img.data) |-> [x \in 1..Len(img.data[y]) |->
                                 IF x <= half \/ (x > img.width - half /\ x <= img.width)
                                 THEN img.data[y][img.width - x + 1]
                                 ELSE img.data[y][x]]]]

\* Flop: the rows y and height-y-1 are exchanged for y < height/2
\* (src/pbm.go:198-203 and 393-397, src/pgm.go:226-230, src/ppm.go:199-204,
\* part_002:203-207).
Flop(img) ==
    LET half == IF img.height > 0 THEN img.height \div 2 ELSE 0
    IN  [img EXCEPT !.data = [y \in 1..Len(img.data) |->
                                 IF y <= half \/ (y > img.height - half /\ y <= img.height)
                                 THEN img.data[img.height - y + 1]
                                 ELSE img.data[y]]]

\* src/ppm.go:241-262: a P2 image of the same size and max, each sample
\* uint8((R + G + B) / 3).
PPMToPGM(img, build) ==
    [data |-> [y \in 1..img.height |-> [x \in 1..img.width |->
                  (img.data[y][x].R + img.data[y][x].G + img.data[y][x].B) \div 3]],
     width |-> img.width, height |-> img.height, magicNumber |-> "P2", max |-> img.max]

\* part_002:237-255: a P5 image of the same size with max 255, each sample
\* the luminosity.
PPM2ToPGM(img, build) ==
    [data |-> [y \in 1..img.height |-> [x \in 1..img.width |->
                  Luminosity(img.data[y][x], build)]],
     width |-> img.width, height |-> img.height, magicNumber |-> "P5", max |-> 255]

ToPGMOf(i, img, build) ==
    CASE i = "ppm.go" -> PPMToPGM(img, build)
      [] i = "part_002" -> PPM2ToPGM(img, build)

\* The largest number of calls made on an image after Read.
MaxGridCalls == 2

\* The number of calls made since Read.
GridCalls == IF last.op = "Read" THEN 0 ELSE last.calls

\* Read has returned an image and a further call may be made on it.
Readable ==
    /\ status = "ok"
    /\ last.op # "stream"
    /\ last.op = "Read" => ~last.nil
    /\ GridCalls < MaxGridCalls

\* The object is r.img, of kind KindOf(i), after the call op.
GridCall(op, i, r) ==
    /\ kind' = KindOf(i)
    /\ impl' = i
    /\ data' = r.img.data
    /\ width' = r.img.width
    /\ height' = r.img.height
    /\ magicNumber' = r.img.magicNumber
    /\ max' = r.img.max
    /\ status' = IF r.panic THEN "panic" ELSE "ok"
    /\ last' = [op |-> op, calls |-> GridCalls + 1]
    /\ UNCHANGED file

Done(img) == [img |-> img, panic |-> FALSE]

Ran(run) == [img |-> [Snapshot EXCEPT !.data = run.data], panic |-> run.panic]

\* The first and the last pixel of the image, and a point outside it.
GridPoints == {Point(0, 0), Point(width - 1, height - 1), Point(width, 0 - 1)}

\* The value Set and the drawing calls write: above some of the max values.
GridSample(k) ==
    IF k = "PBM" THEN TRUE ELSE IF k = "PGM" THEN 200 ELSE Ink

GridSet ==
    /\ Readable
    /\ \E p \in GridPoints :
          GridCall("Set", impl,
                   Ran(SetOf(impl, data, width, height, p.X, p.Y, GridSample(kind))))

GridInvert ==
    /\ Readable
    /\ GridCall("Invert", impl, Done(InvertOf(impl, Snapshot)))

GridFlip ==
    /\ Readable
    /\ GridCall("Flip", impl, Done(Flip(Snapshot)))

GridFlop ==
    /\ Readable
    /\ GridCall("Flop", impl, Done(Flop(Snapshot)))

\* make([][]T, width) panics for a negative width.
GridRotate90CW ==
    /\ Readable
    /\ kind # "PBM"
    /\ GridCall("Rotate90CW", impl,
                IF width < 0 THEN [img |-> Snapshot, panic |-> TRUE]
                ELSE Done(Rotate90(Snapshot)))

GridSetMagicNumber ==
    /\ Readable
    /\ \E m \in Supported(kind) :
          GridCall("SetMagicNumber", impl, Done([Snapshot EXCEPT !.magicNumber = m]))

GridSetMaxValue ==
    /\ Readable
    /\ kind # "PBM"
    /\ \E maxValue \in CodecMaxima, build \in {"wrap", "saturate"} :
          GridCall("SetMaxValue", impl, SetMaxValueOf(impl, Snapshot, maxValue, build))

GridToPBM ==
    /\ Readable
    /\ kind # "PBM"
    /\ \E build \in {"exact", "short"} :
          GridCall("ToPBM", "pbm.go", Done(ToPBMOf(impl, Snapshot, build)))

GridToPGM ==
    /\ Readable
    /\ kind = "PPM"
    /\ \E build \in {"exact", "short"} :
          GridCall("ToPGM", "pgm.go", Done(ToPGMOf(impl, Snapshot, build)))

GridDraw ==
    /\ Readable
    /\ kind = "PPM"
    /\ \E p1 \in GridPoints, p2 \in GridPoints, p3 \in GridPoints :
          \/ GridCall("DrawLine", impl,
                      Ran(DrawLineOf(impl, StartRun, width, height, p1, p2, Ink)))
          \/ GridCall("DrawRectangle", impl,
                      Ran(DrawRectangleOf(impl, StartRun, width, height, p1,
                                          p3.X - p2.X, p3.Y - p2.Y, Ink)))
          \/ GridCall("DrawFilledRectangle", impl,
                      Ran(DrawFilledRectangleOf(impl, StartRun, width, height, p1,
                                                p3.X - p2.X, p3.Y - p2.Y, Ink)))
          \/ GridCall("DrawCircle", impl,
                      Ran(DrawCircleOf(impl, StartRun, width, height, p1,
                                       Abs(p3.X - p2.X), Ink)))
          \/ GridCall("DrawFilledTriangle", impl,
                      Ran(DrawFilledTriangleOf(impl, StartRun, width, height, p1, p2, p3,
                                               Ink)))
          \/ GridCall("DrawPolygon", impl,
                      Ran(DrawPolygonOf(impl, StartRun, width, height, <<p1, p2, p3>>, Ink)))
          \/ GridCall("DrawFilledPolygon", impl,
                      Ran(DrawFilledPolygonOf(impl, StartRun, width, height,
                                              <<p1, p2, p3>>, Ink)))

InitGrid ==
    /\ impl \in PBMImpls \cup PGMImpls \cup PPMImpls
    /\ kind = KindOf(impl)
    /\ data = <<>>
    /\ width = 0
    /\ height = 0
    /\ magicNumber = ""
    /\ max = 0
    /\ status = "ok"
    /\ last \in {d \in HeaderStreams : d.cut = 0 /\ (HasMaxLine(d.magic) \/ d.maxv = 255)}
    /\ file = StreamOf(last)

NextGrid ==
    \/ ReadStream
    \/ GridSet
    \/ GridInvert
    \/ GridFlip
    \/ GridFlop
    \/ GridRotate90CW
    \/ GridSetMagicNumber
    \/ GridSetMaxValue
    \/ GridToPBM
    \/ GridToPGM
    \/ GridDraw

\* The streams are those of the decoding runs whose body is complete.
SpecGrid == InitGrid /\ [][NextGrid]_vars

\* C26: in every state reached by a successful Read followed by any
\* sequence of Set, Invert, Flip, Flop, Rotate90CW, SetMagicNumber,
\* SetMaxValue, conversion and drawing calls, the grid has exactly height
\* rows and every row has exactly width samples.
C26_GridMatchesSize ==
    (last.op # "stream" /\ (last.op = "Read" => ~last.nil)) => Rectangular

\* A read image that is not square has been turned by Rotate90CW.
C26_Witness ==
    /\ last.op = "Rotate90CW"
    /\ status = "ok"
    /\ width # height
    /\ width > 0
    /\ height > 0
    /\ Rectangular

-----------------------------------------------------------------------------
\* The calls C27 is about.
RangeCalls ==
    {"Set", "Invert", "SetMaxValue", "Flip", "Flop", "Rotate90CW", "DrawLine",
     "DrawRectangle", "DrawFilledRectangle", "DrawCircle", "DrawFilledTriangle",
     "DrawPolygon", "DrawFilledPolygon"}

\* C27: for PGM and PPM images, in every state reached by a successful Read
\* followed by any sequence of Set, Invert, SetMaxValue, Flip, Flop,
\* Rotate90CW and drawing calls, every channel value of every sample lies in
\* 0..max.  (Stated for the image Read returned and for the image after one
\* such call on it.)
C27_SamplesWithinMax ==
    (/\ kind \in {"PGM", "PPM"}
     /\ status = "ok"
     /\ \/ last.op = "Read" /\ ~last.nil
        \/ last.op \in RangeCalls /\ last.calls = 1) =>
        \A y \in 1..Len(data) : \A x \in 1..Len(data[y]) :
            \A v \in (IF kind = "PGM" THEN {data[y][x]}
                       ELSE {data[y][x].R, data[y][x].G, data[y][x].B}) :
                v >= 0 /\ v <= max

====
